---------------------------- MODULE Spec2Model ----------------------------
(***************************************************************************)
(* Three programs of the repository, each with its own specification over  *)
(* one set of variables:                                                   *)
(*  - "Hybrid RAG/hybridRAG.py": the SQL validator extract_sql, the        *)
(*    orchestrator ask_mid with its collaborators (chat model, SQLite      *)
(*    store, embedding model, Chroma vector index), the loader of the      *)
(*    table load_mid_to_sqlite and the index build build_vector_store      *)
(*    (SpecValidator, Spec, SpecBuild);                                    *)
(*  - "ai_research_agents/ai_research_agents.py": the graph of a           *)
(*    supervisor and two workers (SpecGraph, SpecGraphFair);               *)
(*  - "medgemma-learning-assistant/store.py": the functions of the SQLite  *)
(*    store of notes and flashcards, called by two callers at a time       *)
(*    (SpecStore).                                                         *)
(*                                                                         *)
(* Text is modelled at character level: a string is a sequence of          *)
(* characters, a character is a TLA+ string: the character itself when it  *)
(* is tab, line feed, carriage return or printable ASCII other than the    *)
(* grave accent, and its code point otherwise ("U+000C", "U+0060",         *)
(* "U+00DF", "U+0130", "U+10400").  The characters of the model are those   *)
(* of CODE_POINTS.                                                         *)
(***************************************************************************)
EXTENDS Integers, Sequences, FiniteSets, TLC

(***************************************************************************)
(* Bounds of the model.                                                    *)
(***************************************************************************)
\* Largest number of fragments a chat response is put together from.
MaxFrags == 3

(***************************************************************************)
(* Python str operations used by the program.                              *)
(***************************************************************************)
\* The characters of the model, as ranges <<first, last>> of code points:
\* ASCII and every character of Unicode 14.0.0 (the interpreter's) that
\* str.lower() or str.upper() changes, that is the lower or upper case of
\* another, or that str.strip() removes.
CODE_POINTS ==
    {<<0, 127>>, <<133, 133>>, <<160, 160>>, <<181, 181>>, <<192, 214>>,
     <<216, 246>>, <<248, 311>>, <<313, 396>>, <<398, 410>>, <<412, 425>>,
     <<428, 441>>, <<444, 445>>, <<447, 447>>, <<452, 544>>, <<546, 563>>,
     <<570, 596>>, <<598, 599>>, <<601, 601>>, <<603, 604>>, <<608, 609>>,
     <<611, 611>>, <<613, 614>>, <<616, 620>>, <<623, 623>>, <<625, 626>>,
     <<629, 629>>, <<637, 637>>, <<640, 640>>, <<642, 643>>, <<647, 652>>,
     <<658, 658>>, <<669, 670>>, <<700, 700>>, <<702, 702>>, <<768, 769>>,
     <<775, 776>>, <<778, 778>>, <<780, 780>>, <<787, 787>>, <<817, 817>>,
     <<834, 834>>, <<837, 837>>, <<880, 883>>, <<886, 887>>, <<891, 893>>,
     <<895, 895>>, <<902, 902>>, <<904, 906>>, <<908, 908>>, <<910, 929>>,
     <<931, 977>>, <<981, 1013>>, <<1015, 1019>>, <<1021, 1153>>,
     <<1162, 1327>>, <<1329, 1366>>, <<1377, 1415>>, <<4256, 4293>>,
     <<4295, 4295>>, <<4301, 4301>>, <<4304, 4346>>, <<4349, 4351>>,
     <<5024, 5109>>, <<5112, 5117>>, <<5760, 5760>>, <<7296, 7304>>,
     <<7312, 7354>>, <<7357, 7359>>, <<7545, 7545>>, <<7549, 7549>>,
     <<7566, 7566>>, <<7680, 7835>>, <<7838, 7838>>, <<7840, 7957>>,
     <<7960, 7965>>, <<7968, 8005>>, <<8008, 8013>>, <<8016, 8023>>,
     <<8025, 8025>>, <<8027, 8027>>, <<8029, 8029>>, <<8031, 8061>>,
     <<8064, 8116>>, <<8118, 8124>>, <<8126, 8126>>, <<8130, 8132>>,
     <<8134, 8140>>, <<8144, 8147>>, <<8150, 8155>>, <<8160, 8172>>,
     <<8178, 8180>>, <<8182, 8188>>, <<8192, 8202>>, <<8232, 8233>>,
     <<8239, 8239>>, <<8287, 8287>>, <<8486, 8486>>, <<8490, 8491>>,
     <<8498, 8498>>, <<8526, 8526>>, <<8544, 8575>>, <<8579, 8580>>,
     <<9398, 9449>>, <<11264, 11376>>, <<11378, 11379>>, <<11381, 11382>>,
     <<11390, 11491>>, <<11499, 11502>>, <<11506, 11507>>,
     <<11520, 11557>>, <<11559, 11559>>, <<11565, 11565>>,
     <<12288, 12288>>, <<42560, 42605>>, <<42624, 42651>>,
     <<42786, 42799>>, <<42802, 42863>>, <<42873, 42887>>,
     <<42891, 42893>>, <<42896, 42900>>, <<42902, 42926>>,
     <<42928, 42954>>, <<42960, 42961>>, <<42966, 42969>>,
     <<42997, 42998>>, <<43859, 43859>>, <<43888, 43967>>,
     <<64256, 64262>>, <<64275, 64279>>, <<65313, 65338>>,
     <<65345, 65370>>, <<66560, 66639>>, <<66736, 66771>>,
     <<66776, 66811>>, <<66928, 66938>>, <<66940, 66954>>,
     <<66956, 66962>>, <<66964, 66965>>, <<66967, 66977>>,
     <<66979, 66993>>, <<66995, 67001>>, <<67003, 67004>>,
     <<68736, 68786>>, <<68800, 68850>>, <<71840, 71903>>,
     <<93760, 93823>>, <<125184, 125251>>}

\* chr(n) as the model names it: the character itself below 128 (the
\* controls but tab, line feed and carriage return, and the grave accent,
\* by code point), "U+" and '%04X' % n from 128 on
chr ==
    LET ascii ==
            <<"U+0000", "U+0001", "U+0002", "U+0003", "U+0004", "U+0005",
            "U+0006", "U+0007", "U+0008", "\t", "\n", "U+000B", "U+000C",
            "\r", "U+000E", "U+000F", "U+0010", "U+0011", "U+0012",
            "U+0013", "U+0014", "U+0015", "U+0016", "U+0017", "U+0018",
            "U+0019", "U+001A", "U+001B", "U+001C", "U+001D", "U+001E",
            "U+001F", " ", "!", "\"", "#", "$", "%", "&", "'", "(", ")",
            "*", "+", ",", "-", ".", "/", "0", "1", "2", "3", "4", "5",
            "6", "7", "8", "9", ":", ";", "<", "=", ">", "?", "@", "A",
            "B", "C", "D", "E", "F", "G", "H", "I", "J", "K", "L", "M",
            "N", "O", "P", "Q", "R", "S", "T", "U", "V", "W", "X", "Y",
            "Z", "[", "\\", "]", "^", "_", "U+0060", "a", "b", "c", "d",
            "e", "f", "g", "h", "i", "j", "k", "l", "m", "n", "o", "p",
            "q", "r", "s", "t", "u", "v", "w", "x", "y", "z", "{", "|",
            "}", "~", "U+007F">>
        digit == <<"0", "1", "2", "3", "4", "5", "6", "7", "8", "9", "A", "B",
                   "C", "D", "E", "F">>
        hex4(n) == digit[((n \div 4096) % 16) + 1]
                       \o digit[((n \div 256) % 16) + 1]
                       \o digit[((n \div 16) % 16) + 1]
                       \o digit[(n % 16) + 1]
    IN  [n \in UNION {r[1]..r[2] : r \in CODE_POINTS} |->
            IF n < 128 THEN ascii[n + 1]
            ELSE IF n < 65536 THEN "U+" \o hex4(n)
            ELSE IF n < 1048576 THEN "U+" \o digit[(n \div 65536) + 1] \o hex4(n)
            ELSE "U+10" \o hex4(n)]

\* ord(c), the inverse of chr, put together range by range
ord ==
    LET name == chr
        RECURSIVE of(_)
        of(rs) ==
            IF rs = {} THEN <<>>
            ELSE LET r == CHOOSE r \in rs : TRUE
                 IN  [c \in {name[n] : n \in r[1]..r[2]} |->
                         CHOOSE n \in r[1]..r[2] : name[n] = c] @@ of(rs \ {r})
    IN  of(CODE_POINTS)

\* str.lower() of one character, whatever stands around it
\* (_PyUnicode_ToLowerFull).  The rules <<first, last, step, delta>> move
\* every step-th code point of first..last by delta.  It is not length
\* preserving: U+0130 (capital I with dot above) lowers to "i" followed by
\* U+0307.
LowerChar ==
    LET rules ==
            {<<65, 90, 1, 32>>, <<192, 214, 1, 32>>, <<216, 222, 1, 32>>,
            <<256, 302, 2, 1>>, <<306, 310, 2, 1>>, <<313, 327, 2, 1>>,
            <<330, 374, 2, 1>>, <<376, 376, 1, -121>>, <<377, 381, 2, 1>>,
            <<385, 385, 1, 210>>, <<386, 388, 2, 1>>, <<390, 390, 1, 206>>,
            <<391, 391, 1, 1>>, <<393, 394, 1, 205>>, <<395, 395, 1, 1>>,
            <<398, 398, 1, 79>>, <<399, 399, 1, 202>>,
            <<400, 400, 1, 203>>, <<401, 401, 1, 1>>, <<403, 403, 1, 205>>,
            <<404, 404, 1, 207>>, <<406, 406, 1, 211>>,
            <<407, 407, 1, 209>>, <<408, 408, 1, 1>>, <<412, 412, 1, 211>>,
            <<413, 413, 1, 213>>, <<415, 415, 1, 214>>, <<416, 420, 2, 1>>,
            <<422, 422, 1, 218>>, <<423, 423, 1, 1>>, <<425, 425, 1, 218>>,
            <<428, 428, 1, 1>>, <<430, 430, 1, 218>>, <<431, 431, 1, 1>>,
            <<433, 434, 1, 217>>, <<435, 437, 2, 1>>, <<439, 439, 1, 219>>,
            <<440, 440, 1, 1>>, <<444, 444, 1, 1>>, <<452, 452, 1, 2>>,
            <<453, 453, 1, 1>>, <<455, 455, 1, 2>>, <<456, 456, 1, 1>>,
            <<458, 458, 1, 2>>, <<459, 475, 2, 1>>, <<478, 494, 2, 1>>,
            <<497, 497, 1, 2>>, <<498, 500, 2, 1>>, <<502, 502, 1, -97>>,
            <<503, 503, 1, -56>>, <<504, 542, 2, 1>>,
            <<544, 544, 1, -130>>, <<546, 562, 2, 1>>,
            <<570, 570, 1, 10795>>, <<571, 571, 1, 1>>,
            <<573, 573, 1, -163>>, <<574, 574, 1, 10792>>,
            <<577, 577, 1, 1>>, <<579, 579, 1, -195>>, <<580, 580, 1, 69>>,
            <<581, 581, 1, 71>>, <<582, 590, 2, 1>>, <<880, 882, 2, 1>>,
            <<886, 886, 1, 1>>, <<895, 895, 1, 116>>, <<902, 902, 1, 38>>,
            <<904, 906, 1, 37>>, <<908, 908, 1, 64>>, <<910, 911, 1, 63>>,
            <<913, 929, 1, 32>>, <<931, 939, 1, 32>>, <<975, 975, 1, 8>>,
            <<984, 1006, 2, 1>>, <<1012, 1012, 1, -60>>,
            <<1015, 1015, 1, 1>>, <<1017, 1017, 1, -7>>,
            <<1018, 1018, 1, 1>>, <<1021, 1023, 1, -130>>,
            <<1024, 1039, 1, 80>>, <<1040, 1071, 1, 32>>,
            <<1120, 1152, 2, 1>>, <<1162, 1214, 2, 1>>,
            <<1216, 1216, 1, 15>>, <<1217, 1229, 2, 1>>,
            <<1232, 1326, 2, 1>>, <<1329, 1366, 1, 48>>,
            <<4256, 4293, 1, 7264>>, <<4295, 4295, 1, 7264>>,
            <<4301, 4301, 1, 7264>>, <<5024, 5103, 1, 38864>>,
            <<5104, 5109, 1, 8>>, <<7312, 7354, 1, -3008>>,
            <<7357, 7359, 1, -3008>>, <<7680, 7828, 2, 1>>,
            <<7838, 7838, 1, -7615>>, <<7840, 7934, 2, 1>>,
            <<7944, 7951, 1, -8>>, <<7960, 7965, 1, -8>>,
            <<7976, 7983, 1, -8>>, <<7992, 7999, 1, -8>>,
            <<8008, 8013, 1, -8>>, <<8025, 8031, 2, -8>>,
            <<8040, 8047, 1, -8>>, <<8072, 8079, 1, -8>>,
            <<8088, 8095, 1, -8>>, <<8104, 8111, 1, -8>>,
            <<8120, 8121, 1, -8>>, <<8122, 8123, 1, -74>>,
            <<8124, 8124, 1, -9>>, <<8136, 8139, 1, -86>>,
            <<8140, 8140, 1, -9>>, <<8152, 8153, 1, -8>>,
            <<8154, 8155, 1, -100>>, <<8168, 8169, 1, -8>>,
            <<8170, 8171, 1, -112>>, <<8172, 8172, 1, -7>>,
            <<8184, 8185, 1, -128>>, <<8186, 8187, 1, -126>>,
            <<8188, 8188, 1, -9>>, <<8486, 8486, 1, -7517>>,
            <<8490, 8490, 1, -8383>>, <<8491, 8491, 1, -8262>>,
            <<8498, 8498, 1, 28>>, <<8544, 8559, 1, 16>>,
            <<8579, 8579, 1, 1>>, <<9398, 9423, 1, 26>>,
            <<11264, 11311, 1, 48>>, <<11360, 11360, 1, 1>>,
            <<11362, 11362, 1, -10743>>, <<11363, 11363, 1, -3814>>,
            <<11364, 11364, 1, -10727>>, <<11367, 11371, 2, 1>>,
            <<11373, 11373, 1, -10780>>, <<11374, 11374, 1, -10749>>,
            <<11375, 11375, 1, -10783>>, <<11376, 11376, 1, -10782>>,
            <<11378, 11378, 1, 1>>, <<11381, 11381, 1, 1>>,
            <<11390, 11391, 1, -10815>>, <<11392, 11490, 2, 1>>,
            <<11499, 11501, 2, 1>>, <<11506, 11506, 1, 1>>,
            <<42560, 42604, 2, 1>>, <<42624, 42650, 2, 1>>,
            <<42786, 42798, 2, 1>>, <<42802, 42862, 2, 1>>,
            <<42873, 42875, 2, 1>>, <<42877, 42877, 1, -35332>>,
            <<42878, 42886, 2, 1>>, <<42891, 42891, 1, 1>>,
            <<42893, 42893, 1, -42280>>, <<42896, 42898, 2, 1>>,
            <<42902, 42920, 2, 1>>, <<42922, 42922, 1, -42308>>,
            <<42923, 42923, 1, -42319>>, <<42924, 42924, 1, -42315>>,
            <<42925, 42925, 1, -42305>>, <<42926, 42926, 1, -42308>>,
            <<42928, 42928, 1, -42258>>, <<42929, 42929, 1, -42282>>,
            <<42930, 42930, 1, -42261>>, <<42931, 42931, 1, 928>>,
            <<42932, 42946, 2, 1>>, <<42948, 42948, 1, -48>>,
            <<42949, 42949, 1, -42307>>, <<42950, 42950, 1, -35384>>,
            <<42951, 42953, 2, 1>>, <<42960, 42960, 1, 1>>,
            <<42966, 42968, 2, 1>>, <<42997, 42997, 1, 1>>,
            <<65313, 65338, 1, 32>>, <<66560, 66599, 1, 40>>,
            <<66736, 66771, 1, 40>>, <<66928, 66964, 2, 39>>,
            <<66929, 66937, 2, 39>>, <<66941, 66953, 2, 39>>,
            <<66957, 66961, 2, 39>>, <<66965, 66965, 1, 39>>,
            <<68736, 68786, 1, 64>>, <<71840, 71871, 1, 32>>,
            <<93760, 93791, 1, 32>>, <<125184, 125217, 1, 34>>}
        rule(n) == {r \in rules : n \in r[1]..r[2] /\ (n - r[1]) % r[3] = 0}
        code == ord
        name == chr
    IN  [c \in DOMAIN code |->
            IF code[c] = 304 THEN <<name[105], name[775]>>
            ELSE IF rule(code[c]) = {} THEN <<c>>
            ELSE <<name[code[c] + (CHOOSE r \in rule(code[c]) : TRUE)[4]]>>]

RECURSIVE LowerFrom(_, _)
\* str.lower() of t from position i on.  U+03A3 (capital sigma) lowers to
\* the final sigma U+03C2 where a cased character stands before it and
\* none after it, the case-ignorable characters in between passed over
\* (handle_capital_sigma).  The classes are ranges <<first, last>>.
LowerFrom(t, i) ==
    IF i > Len(t) THEN <<>>
    ELSE (IF t[i] = "U+03A3"
          THEN LET cased ==
                       {<<65, 90>>, <<97, 122>>, <<181, 181>>, <<192, 214>>,
                       <<216, 246>>, <<248, 311>>, <<313, 396>>,
                       <<398, 410>>, <<412, 425>>, <<428, 441>>,
                       <<444, 445>>, <<447, 447>>, <<452, 544>>,
                       <<546, 563>>, <<570, 596>>, <<598, 599>>,
                       <<601, 601>>, <<603, 604>>, <<608, 609>>,
                       <<611, 611>>, <<613, 614>>, <<616, 620>>,
                       <<623, 623>>, <<625, 626>>, <<629, 629>>,
                       <<637, 637>>, <<640, 640>>, <<642, 643>>,
                       <<647, 652>>, <<658, 658>>, <<669, 670>>,
                       <<880, 883>>, <<886, 887>>, <<891, 893>>,
                       <<895, 895>>, <<902, 902>>, <<904, 906>>,
                       <<908, 908>>, <<910, 929>>, <<931, 977>>,
                       <<981, 1013>>, <<1015, 1019>>, <<1021, 1153>>,
                       <<1162, 1327>>, <<1329, 1366>>, <<1377, 1415>>,
                       <<4256, 4293>>, <<4295, 4295>>, <<4301, 4301>>,
                       <<4304, 4346>>, <<4349, 4351>>, <<5024, 5109>>,
                       <<5112, 5117>>, <<7296, 7304>>, <<7312, 7354>>,
                       <<7357, 7359>>, <<7545, 7545>>, <<7549, 7549>>,
                       <<7566, 7566>>, <<7680, 7835>>, <<7838, 7838>>,
                       <<7840, 7957>>, <<7960, 7965>>, <<7968, 8005>>,
                       <<8008, 8013>>, <<8016, 8023>>, <<8025, 8025>>,
                       <<8027, 8027>>, <<8029, 8029>>, <<8031, 8061>>,
                       <<8064, 8116>>, <<8118, 8124>>, <<8126, 8126>>,
                       <<8130, 8132>>, <<8134, 8140>>, <<8144, 8147>>,
                       <<8150, 8155>>, <<8160, 8172>>, <<8178, 8180>>,
                       <<8182, 8188>>, <<8486, 8486>>, <<8490, 8491>>,
                       <<8498, 8498>>, <<8526, 8526>>, <<8544, 8575>>,
                       <<8579, 8580>>, <<9398, 9449>>, <<11264, 11376>>,
                       <<11378, 11379>>, <<11381, 11382>>,
                       <<11390, 11491>>, <<11499, 11502>>,
                       <<11506, 11507>>, <<11520, 11557>>,
                       <<11559, 11559>>, <<11565, 11565>>,
                       <<42560, 42605>>, <<42624, 42651>>,
                       <<42786, 42799>>, <<42802, 42863>>,
                       <<42873, 42887>>, <<42891, 42893>>,
                       <<42896, 42900>>, <<42902, 42926>>,
                       <<42928, 42954>>, <<42960, 42961>>,
                       <<42966, 42969>>, <<42997, 42998>>,
                       <<43859, 43859>>, <<43888, 43967>>,
                       <<64256, 64262>>, <<64275, 64279>>,
                       <<65313, 65338>>, <<65345, 65370>>,
                       <<66560, 66639>>, <<66736, 66771>>,
                       <<66776, 66811>>, <<66928, 66938>>,
                       <<66940, 66954>>, <<66956, 66962>>,
                       <<66964, 66965>>, <<66967, 66977>>,
                       <<66979, 66993>>, <<66995, 67001>>,
                       <<67003, 67004>>, <<68736, 68786>>,
                       <<68800, 68850>>, <<71840, 71903>>,
                       <<93760, 93823>>, <<125184, 125251>>}
                   case_ignorable ==
                       {<<39, 39>>, <<46, 46>>, <<58, 58>>, <<94, 94>>,
                       <<96, 96>>, <<700, 700>>, <<702, 702>>,
                       <<768, 769>>, <<775, 776>>, <<778, 778>>,
                       <<780, 780>>, <<787, 787>>, <<817, 817>>,
                       <<834, 834>>, <<837, 837>>}
                   class == [j \in 1..Len(t) |->
                                IF \E r \in case_ignorable :
                                       ord[t[j]] \in r[1]..r[2]
                                THEN "case-ignorable"
                                ELSE IF \E r \in cased : ord[t[j]] \in r[1]..r[2]
                                THEN "cased"
                                ELSE ""]
                   before == {j \in 1..(i - 1) : class[j] # "case-ignorable"}
                   after == {j \in (i + 1)..Len(t) :
                                class[j] # "case-ignorable"}
                   final_sigma ==
                       /\ before # {}
                       /\ class[CHOOSE j \in before :
                                    \A k \in before : k <= j] = "cased"
                       /\ \/ after = {}
                          \/ class[CHOOSE j \in after :
                                       \A k \in after : j <= k] # "cased"
               IN  IF final_sigma THEN <<"U+03C2">> ELSE <<"U+03C3">>
          ELSE LowerChar[t[i]]) \o LowerFrom(t, i + 1)

\* str.lower()
Lower(t) == LowerFrom(t, 1)

\* str.upper() of one character (_PyUnicode_ToUpperFull).  It is not length
\* preserving: the rows <<code point, upper case>> of special are the
\* characters whose upper case is longer, as U+00DF (sharp s), "SS", and
\* U+FB01 (ligature fi), "FI".
UpperChar ==
    LET rules ==
            {<<97, 122, 1, -32>>, <<181, 181, 1, 743>>,
            <<224, 246, 1, -32>>, <<248, 254, 1, -32>>,
            <<255, 255, 1, 121>>, <<257, 303, 2, -1>>,
            <<305, 305, 1, -232>>, <<307, 311, 2, -1>>,
            <<314, 328, 2, -1>>, <<331, 375, 2, -1>>, <<378, 382, 2, -1>>,
            <<383, 383, 1, -300>>, <<384, 384, 1, 195>>,
            <<387, 389, 2, -1>>, <<392, 392, 1, -1>>, <<396, 396, 1, -1>>,
            <<402, 402, 1, -1>>, <<405, 405, 1, 97>>, <<409, 409, 1, -1>>,
            <<410, 410, 1, 163>>, <<414, 414, 1, 130>>,
            <<417, 421, 2, -1>>, <<424, 424, 1, -1>>, <<429, 429, 1, -1>>,
            <<432, 432, 1, -1>>, <<436, 438, 2, -1>>, <<441, 441, 1, -1>>,
            <<445, 445, 1, -1>>, <<447, 447, 1, 56>>, <<453, 453, 1, -1>>,
            <<454, 454, 1, -2>>, <<456, 456, 1, -1>>, <<457, 457, 1, -2>>,
            <<459, 459, 1, -1>>, <<460, 460, 1, -2>>, <<462, 476, 2, -1>>,
            <<477, 477, 1, -79>>, <<479, 495, 2, -1>>, <<498, 498, 1, -1>>,
            <<499, 499, 1, -2>>, <<501, 501, 1, -1>>, <<505, 543, 2, -1>>,
            <<547, 563, 2, -1>>, <<572, 572, 1, -1>>,
            <<575, 576, 1, 10815>>, <<578, 578, 1, -1>>,
            <<583, 591, 2, -1>>, <<592, 592, 1, 10783>>,
            <<593, 593, 1, 10780>>, <<594, 594, 1, 10782>>,
            <<595, 595, 1, -210>>, <<596, 596, 1, -206>>,
            <<598, 599, 1, -205>>, <<601, 601, 1, -202>>,
            <<603, 603, 1, -203>>, <<604, 604, 1, 42319>>,
            <<608, 608, 1, -205>>, <<609, 609, 1, 42315>>,
            <<611, 611, 1, -207>>, <<613, 613, 1, 42280>>,
            <<614, 614, 1, 42308>>, <<616, 616, 1, -209>>,
            <<617, 617, 1, -211>>, <<618, 618, 1, 42308>>,
            <<619, 619, 1, 10743>>, <<620, 620, 1, 42305>>,
            <<623, 623, 1, -211>>, <<625, 625, 1, 10749>>,
            <<626, 626, 1, -213>>, <<629, 629, 1, -214>>,
            <<637, 637, 1, 10727>>, <<640, 640, 1, -218>>,
            <<642, 642, 1, 42307>>, <<643, 643, 1, -218>>,
            <<647, 647, 1, 42282>>, <<648, 648, 1, -218>>,
            <<649, 649, 1, -69>>, <<650, 651, 1, -217>>,
            <<652, 652, 1, -71>>, <<658, 658, 1, -219>>,
            <<669, 669, 1, 42261>>, <<670, 670, 1, 42258>>,
            <<837, 837, 1, 84>>, <<881, 883, 2, -1>>, <<887, 887, 1, -1>>,
            <<891, 893, 1, 130>>, <<940, 940, 1, -38>>,
            <<941, 943, 1, -37>>, <<945, 961, 1, -32>>,
            <<962, 962, 1, -31>>, <<963, 971, 1, -32>>,
            <<972, 972, 1, -64>>, <<973, 974, 1, -63>>,
            <<976, 976, 1, -62>>, <<977, 977, 1, -57>>,
            <<981, 981, 1, -47>>, <<982, 982, 1, -54>>,
            <<983, 983, 1, -8>>, <<985, 1007, 2, -1>>,
            <<1008, 1008, 1, -86>>, <<1009, 1009, 1, -80>>,
            <<1010, 1010, 1, 7>>, <<1011, 1011, 1, -116>>,
            <<1013, 1013, 1, -96>>, <<1016, 1016, 1, -1>>,
            <<1019, 1019, 1, -1>>, <<1072, 1103, 1, -32>>,
            <<1104, 1119, 1, -80>>, <<1121, 1153, 2, -1>>,
            <<1163, 1215, 2, -1>>, <<1218, 1230, 2, -1>>,
            <<1231, 1231, 1, -15>>, <<1233, 1327, 2, -1>>,
            <<1377, 1414, 1, -48>>, <<4304, 4346, 1, 3008>>,
            <<4349, 4351, 1, 3008>>, <<5112, 5117, 1, -8>>,
            <<7296, 7296, 1, -6254>>, <<7297, 7297, 1, -6253>>,
            <<7298, 7298, 1, -6244>>, <<7299, 7300, 1, -6242>>,
            <<7301, 7301, 1, -6243>>, <<7302, 7302, 1, -6236>>,
            <<7303, 7303, 1, -6181>>, <<7304, 7304, 1, 35266>>,
            <<7545, 7545, 1, 35332>>, <<7549, 7549, 1, 3814>>,
            <<7566, 7566, 1, 35384>>, <<7681, 7829, 2, -1>>,
            <<7835, 7835, 1, -59>>, <<7841, 7935, 2, -1>>,
            <<7936, 7943, 1, 8>>, <<7952, 7957, 1, 8>>,
            <<7968, 7975, 1, 8>>, <<7984, 7991, 1, 8>>,
            <<8000, 8005, 1, 8>>, <<8017, 8023, 2, 8>>,
            <<8032, 8039, 1, 8>>, <<8048, 8049, 1, 74>>,
            <<8050, 8053, 1, 86>>, <<8054, 8055, 1, 100>>,
            <<8056, 8057, 1, 128>>, <<8058, 8059, 1, 112>>,
            <<8060, 8061, 1, 126>>, <<8112, 8113, 1, 8>>,
            <<8126, 8126, 1, -7205>>, <<8144, 8145, 1, 8>>,
            <<8160, 8161, 1, 8>>, <<8165, 8165, 1, 7>>,
            <<8526, 8526, 1, -28>>, <<8560, 8575, 1, -16>>,
            <<8580, 8580, 1, -1>>, <<9424, 9449, 1, -26>>,
            <<11312, 11359, 1, -48>>, <<11361, 11361, 1, -1>>,
            <<11365, 11365, 1, -10795>>, <<11366, 11366, 1, -10792>>,
            <<11368, 11372, 2, -1>>, <<11379, 11379, 1, -1>>,
            <<11382, 11382, 1, -1>>, <<11393, 11491, 2, -1>>,
            <<11500, 11502, 2, -1>>, <<11507, 11507, 1, -1>>,
            <<11520, 11557, 1, -7264>>, <<11559, 11559, 1, -7264>>,
            <<11565, 11565, 1, -7264>>, <<42561, 42605, 2, -1>>,
            <<42625, 42651, 2, -1>>, <<42787, 42799, 2, -1>>,
            <<42803, 42863, 2, -1>>, <<42874, 42876, 2, -1>>,
            <<42879, 42887, 2, -1>>, <<42892, 42892, 1, -1>>,
            <<42897, 42899, 2, -1>>, <<42900, 42900, 1, 48>>,
            <<42903, 42921, 2, -1>>, <<42933, 42947, 2, -1>>,
            <<42952, 42954, 2, -1>>, <<42961, 42961, 1, -1>>,
            <<42967, 42969, 2, -1>>, <<42998, 42998, 1, -1>>,
            <<43859, 43859, 1, -928>>, <<43888, 43967, 1, -38864>>,
            <<65345, 65370, 1, -32>>, <<66600, 66639, 1, -40>>,
            <<66776, 66811, 1, -40>>, <<66967, 67003, 2, -39>>,
            <<66968, 66976, 2, -39>>, <<66980, 66992, 2, -39>>,
            <<66996, 67000, 2, -39>>, <<67004, 67004, 1, -39>>,
            <<68800, 68850, 1, -64>>, <<71872, 71903, 1, -32>>,
            <<93792, 93823, 1, -32>>, <<125218, 125251, 1, -34>>}
        special ==
            {<<223, <<83, 83>>>>, <<329, <<700, 78>>>>,
            <<496, <<74, 780>>>>, <<912, <<921, 776, 769>>>>,
            <<944, <<933, 776, 769>>>>, <<1415, <<1333, 1362>>>>,
            <<7830, <<72, 817>>>>, <<7831, <<84, 776>>>>,
            <<7832, <<87, 778>>>>, <<7833, <<89, 778>>>>,
            <<7834, <<65, 702>>>>, <<8016, <<933, 787>>>>,
            <<8018, <<933, 787, 768>>>>, <<8020, <<933, 787, 769>>>>,
            <<8022, <<933, 787, 834>>>>, <<8064, <<7944, 921>>>>,
            <<8065, <<7945, 921>>>>, <<8066, <<7946, 921>>>>,
            <<8067, <<7947, 921>>>>, <<8068, <<7948, 921>>>>,
            <<8069, <<7949, 921>>>>, <<8070, <<7950, 921>>>>,
            <<8071, <<7951, 921>>>>, <<8072, <<7944, 921>>>>,
            <<8073, <<7945, 921>>>>, <<8074, <<7946, 921>>>>,
            <<8075, <<7947, 921>>>>, <<8076, <<7948, 921>>>>,
            <<8077, <<7949, 921>>>>, <<8078, <<7950, 921>>>>,
            <<8079, <<7951, 921>>>>, <<8080, <<7976, 921>>>>,
            <<8081, <<7977, 921>>>>, <<8082, <<7978, 921>>>>,
            <<8083, <<7979, 921>>>>, <<8084, <<7980, 921>>>>,
            <<8085, <<7981, 921>>>>, <<8086, <<7982, 921>>>>,
            <<8087, <<7983, 921>>>>, <<8088, <<7976, 921>>>>,
            <<8089, <<7977, 921>>>>, <<8090, <<7978, 921>>>>,
            <<8091, <<7979, 921>>>>, <<8092, <<7980, 921>>>>,
            <<8093, <<7981, 921>>>>, <<8094, <<7982, 921>>>>,
            <<8095, <<7983, 921>>>>, <<8096, <<8040, 921>>>>,
            <<8097, <<8041, 921>>>>, <<8098, <<8042, 921>>>>,
            <<8099, <<8043, 921>>>>, <<8100, <<8044, 921>>>>,
            <<8101, <<8045, 921>>>>, <<8102, <<8046, 921>>>>,
            <<8103, <<8047, 921>>>>, <<8104, <<8040, 921>>>>,
            <<8105, <<8041, 921>>>>, <<8106, <<8042, 921>>>>,
            <<8107, <<8043, 921>>>>, <<8108, <<8044, 921>>>>,
            <<8109, <<8045, 921>>>>, <<8110, <<8046, 921>>>>,
            <<8111, <<8047, 921>>>>, <<8114, <<8122, 921>>>>,
            <<8115, <<913, 921>>>>, <<8116, <<902, 921>>>>,
            <<8118, <<913, 834>>>>, <<8119, <<913, 834, 921>>>>,
            <<8124, <<913, 921>>>>, <<8130, <<8138, 921>>>>,
            <<8131, <<919, 921>>>>, <<8132, <<905, 921>>>>,
            <<8134, <<919, 834>>>>, <<8135, <<919, 834, 921>>>>,
            <<8140, <<919, 921>>>>, <<8146, <<921, 776, 768>>>>,
            <<8147, <<921, 776, 769>>>>, <<8150, <<921, 834>>>>,
            <<8151, <<921, 776, 834>>>>, <<8162, <<933, 776, 768>>>>,
            <<8163, <<933, 776, 769>>>>, <<8164, <<929, 787>>>>,
            <<8166, <<933, 834>>>>, <<8167, <<933, 776, 834>>>>,
            <<8178, <<8186, 921>>>>, <<8179, <<937, 921>>>>,
            <<8180, <<911, 921>>>>, <<8182, <<937, 834>>>>,
            <<8183, <<937, 834, 921>>>>, <<8188, <<937, 921>>>>,
            <<64256, <<70, 70>>>>, <<64257, <<70, 73>>>>,
            <<64258, <<70, 76>>>>, <<64259, <<70, 70, 73>>>>,
            <<64260, <<70, 70, 76>>>>, <<64261, <<83, 84>>>>,
            <<64262, <<83, 84>>>>, <<64275, <<1348, 1350>>>>,
            <<64276, <<1348, 1333>>>>, <<64277, <<1348, 1339>>>>,
            <<64278, <<1358, 1350>>>>, <<64279, <<1348, 1341>>>>}
        rule(n) == {r \in rules : n \in r[1]..r[2] /\ (n - r[1]) % r[3] = 0}
        row(n) == {s \in special : s[1] = n}
        code == ord
        name == chr
    IN  [c \in DOMAIN code |->
            IF row(code[c]) # {}
            THEN LET to == (CHOOSE s \in row(code[c]) : TRUE)[2]
                 IN  [k \in 1..Len(to) |-> name[to[k]]]
            ELSE IF rule(code[c]) = {} THEN <<c>>
            ELSE <<name[code[c] + (CHOOSE r \in rule(code[c]) : TRUE)[4]]>>]

RECURSIVE Upper(_)
\* str.upper()
Upper(t) ==
    IF t = <<>> THEN <<>> ELSE UpperChar[Head(t)] \o Upper(Tail(t))

\* sub occurs in t at (1-based) position i
OccursAt(sub, t, i) ==
    /\ i >= 1
    /\ i + Len(sub) - 1 <= Len(t)
    /\ SubSeq(t, i, i + Len(sub) - 1) = sub

\* `sub in t`
Contains(t, sub) ==
    \E i \in 1..(Len(t) - Len(sub) + 1) : OccursAt(sub, t, i)

\* str.find(sub): the 0-based index of the first occurrence, or -1
Find(t, sub) ==
    IF Contains(t, sub)
    THEN (CHOOSE i \in 1..(Len(t) - Len(sub) + 1) :
             /\ OccursAt(sub, t, i)
             /\ \A j \in 1..(i - 1) : ~OccursAt(sub, t, j)) - 1
    ELSE -1

\* the characters str.strip() removes (str.isspace())
Whitespace ==
    {chr[n] : n \in (9..13) \cup (28..32) \cup {133, 160, 5760}
                       \cup (8192..8202)
                       \cup {8232, 8233, 8239, 8287, 12288}}

\* t[idx:] for a 0-based idx >= 0
SliceFrom(t, idx) ==
    IF idx >= Len(t) THEN <<>> ELSE SubSeq(t, idx + 1, Len(t))

\* str.strip()
Strip(t) ==
    LET keep == {i \in 1..Len(t) : t[i] \notin Whitespace}
    IN  IF keep = {} THEN <<>>
        ELSE LET lo == CHOOSE i \in keep : \A j \in keep : i <= j
                 hi == CHOOSE i \in keep : \A j \in keep : j <= i
             IN  SubSeq(t, lo, hi)

(***************************************************************************)
(* Configuration and the Schema Descriptor.                                *)
(***************************************************************************)
TABLE_NAME ==
    <<"m","i","d","_","d","r","u","g","s">>
EXPECTED_COLUMNS ==
    <<<<"n","a","m","e">>,
      <<"l","i","n","k">>,
      <<"c","o","n","t","a","i","n","s">>,
      <<"p","r","o","d","u","c","t","i","n","t","r","o","d","u","c","t","i","o",
  "n">>,
      <<"p","r","o","d","u","c","t","u","s","e","s">>,
      <<"p","r","o","d","u","c","t","b","e","n","e","f","i","t","s">>,
      <<"s","i","d","e","e","f","f","e","c","t">>,
      <<"h","o","w","t","o","u","s","e">>,
      <<"h","o","w","w","o","r","k","s">>,
      <<"q","u","i","c","k","t","i","p","s">>,
      <<"s","a","f","e","t","y","a","d","v","i","c","e">>,
      <<"c","h","e","m","i","c","a","l","_","c","l","a","s","s">>,
      <<"h","a","b","i","t","_","f","o","r","m","i","n","g">>,
      <<"t","h","e","r","a","p","e","u","t","i","c","_","c","l","a","s","s">>,
      <<"a","c","t","i","o","n","_","c","l","a","s","s">>>>

(***************************************************************************)
(* SQL helpers: extract_sql.                                               *)
(***************************************************************************)
KW_SELECT ==
    <<"s","e","l","e","c","t">>

KW_JOIN_SPACED ==
    <<" ","j","o","i","n"," ">>

KW_DRUG_NAME ==
    <<"d","r","u","g","_","n","a","m","e">>

SAFE_DEFAULT ==
    <<"S","E","L","E","C","T"," ","*"," ","F","R","O","M"," ","m","i","d",
      "_","d","r","u","g","s"," ","L","I","M","I","T"," ","1","0",";">>

WILDCARD_DEFAULT ==
    <<"S","E","L","E","C","T"," ","*"," ","F","R","O","M"," ","m","i","d",
      "_","d","r","u","g","s"," ","W","H","E","R","E"," ","n","a","m","e",
      " ","L","I","K","E"," ","'","%","k","e","y","w","o","r","d","%","'",
      " ","L","I","M","I","T"," ","1","0",";">>

\* extract_sql(text): the SELECT query taken out of the chat model's output
extract_sql(text) ==
    LET idx == Find(Lower(text), KW_SELECT)
        sql_ == Strip(SliceFrom(text, idx))
    IN  IF idx = -1 THEN SAFE_DEFAULT
        ELSE IF Contains(Lower(sql_), KW_JOIN_SPACED) THEN SAFE_DEFAULT
        ELSE IF Contains(Lower(sql_), KW_DRUG_NAME) THEN WILDCARD_DEFAULT
        ELSE sql_

(***************************************************************************)
(* Outputs of the chat collaborator asked for SQL: up to MaxFrags          *)
(* fragments, concatenated.                                                *)
(***************************************************************************)
FragSelectName ==
    <<"S","E","L","E","C","T"," ","n","a","m","e"," ","F","R","O","M"," ",
      "m","i","d","_","d","r","u","g","s">>

FragSelectAll ==
    <<"S","E","L","E","C","T"," ","*"," ","F","R","O","M"," ","m","i","d",
      "_","d","r","u","g","s">>

FragJoin ==
    <<" ","J","O","I","N"," ","o","t","h","e","r">>

FragWherePrice ==
    <<" ","W","H","E","R","E"," ","p","r","i","c","e"," ",">"," ","5">>

FragLimit ==
    <<" ","L","I","M","I","T"," ","1","0",";">>

FragChatter ==
    <<"s","q","l",":"," ">>

Fragments ==
    {FragSelectName,
     FragSelectAll,
     FragJoin,
     <<"\n","j","o","i","n"," ","o","t","h","e","r">>,
     FragWherePrice,
     <<" ","W","H","E","R","E"," ","D","r","u","g","_","N","a","m","e"," ",
       "="," ","'","x","'">>,
     FragLimit,
     <<";"," ","D","R","O","P"," ","T","A","B","L","E"," ","m","i","d","_",
       "d","r","u","g","s">>,
     <<"U+0130">>,
     FragChatter,
     <<" ">>}

RECURSIVE Concat(_)
\* the concatenation of a sequence of strings
Concat(ss) ==
    IF ss = <<>> THEN <<>> ELSE Head(ss) \o Concat(Tail(ss))

Candidates ==
    {Concat(fs) : fs \in UNION {[1..n -> Fragments] : n \in 0..MaxFrags}}

(***************************************************************************)
(* The corpus (rows of mid_drugs).  A row holds the columns the            *)
(* spreadsheet had; here name, productuses and howworks.  A cell is a      *)
(* text, NaN (what pandas reads from a blank cell of the sheet) or None    *)
(* (what it reads from a NULL of the table).  Row i of the master sheet is *)
(* a drug whose name grows with i and whose howworks cell is blank in two  *)
(* rows of three.                                                          *)
(***************************************************************************)
\* float("nan")
NaN == <<"<nan>">>

\* SQL NULL (Python None)
NULL == <<"<NULL>">>

\* str(v) of a cell
str(v) ==
    IF v = NaN THEN <<"n","a","n">>
    ELSE IF v = NULL THEN <<"N","o","n","e">>
    ELSE v

\* df.to_sql and pd.read_sql_query after it: a NaN is written as NULL and
\* read as None
to_sql(df_) ==
    [i \in 1..Len(df_) |->
        [k \in DOMAIN df_[i] |-> IF df_[i][k] = NaN THEN NULL ELSE df_[i][k]]]

\* Largest number of rows of a corpus.
MaxRows == 6

RECURSIVE Rep(_, _)
\* c repeated n times
Rep(c, n) == IF n <= 0 THEN <<>> ELSE <<c>> \o Rep(c, n - 1)

MasterRow(i) ==
    [name |-> <<"d">> \o Rep("a", i),
     productuses |-> IF i % 2 = 1 THEN <<"p","a","i","n">>
                     ELSE <<"f","l","u">>,
     howworks |-> IF i % 3 = 0 THEN <<"n","s","a","i","d">> ELSE NaN]

\* the DataFrames build_vector_store is given: any rows of the master sheet,
\* rows of empty texts among them
Corpora ==
    UNION {{[i \in 1..n |->
                IF i \in S THEN MasterRow(i)
                ELSE [name |-> <<>>, productuses |-> <<>>, howworks |-> <<>>]] :
               S \in SUBSET (1..n)} : n \in 0..MaxRows}

(***************************************************************************)
(* Embedding collaborator: embed(text), a pure function of the text to a   *)
(* vector of fixed dimension.                                              *)
(***************************************************************************)
RECURSIVE CountChar(_, _)
CountChar(t, c) ==
    IF t = <<>> THEN 0
    ELSE (IF Head(t) = c THEN 1 ELSE 0) + CountChar(Tail(t), c)

embed(text) == <<1 + Len(text), 1 + CountChar(text, "a")>>

(***************************************************************************)
(* Vector index collaborator (Chroma collection, cosine space).  An index  *)
(* is [exists, entries]: whether the named collection exists, and its      *)
(* entries [id, embedding, document, metadata] in insertion order.         *)
(***************************************************************************)
NoIndex == [exists |-> FALSE, entries |-> <<>>]

\* get_collection(): the collection, created when it cannot be got
get_collection(ix) ==
    IF ix.exists THEN ix ELSE [exists |-> TRUE, entries |-> <<>>]

Dot(a, b) == a[1] * b[1] + a[2] * b[2]

\* cosine similarity of q with a is strictly larger than with b
\* (all components are positive)
CosCloser(q, a, b) ==
    Dot(q, a) * Dot(q, a) * Dot(b, b) > Dot(q, b) * Dot(q, b) * Dot(a, a)

\* the position of the entry of es the index ranks first for q:
\* the most similar one, the earliest inserted among equals
RankFirst(es, q) ==
    CHOOSE i \in 1..Len(es) :
        /\ \A j \in 1..Len(es) : ~CosCloser(q, es[j].embedding, es[i].embedding)
        /\ \A j \in 1..(i - 1) : CosCloser(q, es[i].embedding, es[j].embedding)

\* es without its i-th element
Without(es, i) == SubSeq(es, 1, i - 1) \o SubSeq(es, i + 1, Len(es))

RECURSIVE Ranked(_, _, _)
\* col.query(query_embeddings=[q], n_results=n): the n nearest entries,
\* nearest first
Ranked(es, q, n) ==
    IF n = 0 \/ es = <<>> THEN <<>>
    ELSE LET i == RankFirst(es, q)
         IN  <<es[i]>> \o Ranked(Without(es, i), q, n - 1)

\* col.add(documents, ids, embeddings, metadatas): entries whose id the
\* collection already holds are left as they are
RECURSIVE AddEntries(_, _)
AddEntries(es, new) ==
    IF new = <<>> THEN es
    ELSE IF \E j \in 1..Len(es) : es[j].id = Head(new).id
         THEN AddEntries(es, Tail(new))
         ELSE AddEntries(Append(es, Head(new)), Tail(new))

(***************************************************************************)
(* build_vector_store: the lists it puts together from the DataFrame.      *)
(***************************************************************************)
CHUNK_CHARS == 300

N_RESULTS == 5

RECURSIVE JoinWith(_, _)
\* sep.join(parts)
JoinWith(sep, parts) ==
    IF parts = <<>> THEN <<>>
    ELSE IF Len(parts) = 1 THEN parts[1]
    ELSE parts[1] \o sep \o JoinWith(sep, Tail(parts))

\* combined[:n]
Prefix(t, n) == SubSeq(t, 1, IF Len(t) < n THEN Len(t) ELSE n)

RECURSIVE IntToStr(_)
\* str(i) for i >= 0
IntToStr(i) ==
    LET d == <<"0","1","2","3","4","5","6","7","8","9">>[(i % 10) + 1]
    IN  IF i < 10 THEN <<d>> ELSE IntToStr(i \div 10) \o <<d>>

\* the chunk of a row
Chunk(row) ==
    Strip(Prefix(JoinWith(<<" ">>, <<str(row.name), str(row.productuses),
                                     str(row.howworks)>>),
                 CHUNK_CHARS))

RECURSIVE BuildLists(_, _)
\* the loop over df.iterrows(), from row i on: the (id, document, metadata)
\* of every row whose chunk is not empty; the id is str of the row label,
\* which counts from 0
BuildLists(df_, i) ==
    IF i > Len(df_) THEN <<>>
    ELSE IF Chunk(df_[i]) = <<>> THEN BuildLists(df_, i + 1)
    ELSE <<[id |-> IntToStr(i - 1),
            document |-> Chunk(df_[i]),
            metadata |-> [name |-> df_[i].name]]>> \o BuildLists(df_, i + 1)

\* embeddings = [embed(d) for d in docs], joined to the lists
WithEmbeddings(lists) ==
    [j \in 1..Len(lists) |->
        [id |-> lists[j].id,
         embedding |-> embed(lists[j].document),
         document |-> lists[j].document,
         metadata |-> lists[j].metadata]]

\* the index a completed build over df_ leaves in an empty directory
BuiltIndex(df_) ==
    [exists |-> TRUE,
     entries |-> AddEntries(<<>>, WithEmbeddings(BuildLists(df_, 1)))]

\* vector_search's result:
\* [{"text": d, "meta": m} for d, m in zip(docs, metas)]
Passages(res_) ==
    [j \in 1..Len(res_) |-> [text |-> res_[j].document, meta |-> res_[j].metadata]]

(***************************************************************************)
(* json.dumps(ctx, indent=2) of the context answer_hybrid hands to the     *)
(* chat model: a dict of the rows (dicts of the table's columns) and the   *)
(* passages.                                                               *)
(***************************************************************************)
\* one character inside a JSON string (ensure_ascii=True): the short
\* escapes, \uXXXX for every other character outside " " .. "~", a pair of
\* surrogates above U+FFFF
JsonChar(c) ==
    LET n == ord[c]
        hex == <<"0","1","2","3","4","5","6","7","8","9","a","b","c","d",
                 "e","f">>
        u(m) == <<"\\", "u", hex[((m \div 4096) % 16) + 1],
                  hex[((m \div 256) % 16) + 1], hex[((m \div 16) % 16) + 1],
                  hex[(m % 16) + 1]>>
    IN  IF c = "\"" THEN <<"\\", "\"">>
        ELSE IF c = "\\" THEN <<"\\", "\\">>
        ELSE IF c = "\n" THEN <<"\\", "n">>
        ELSE IF c = "\r" THEN <<"\\", "r">>
        ELSE IF c = "\t" THEN <<"\\", "t">>
        ELSE IF n = 8 THEN <<"\\", "b">>
        ELSE IF n = 12 THEN <<"\\", "f">>
        ELSE IF n \in 32..126 THEN <<c>>
        ELSE IF n < 65536 THEN u(n)
        ELSE u(55296 + ((n - 65536) \div 1024)) \o u(56320 + ((n - 65536) % 1024))

RECURSIVE JsonChars(_)
JsonChars(t) ==
    IF t = <<>> THEN <<>> ELSE JsonChar(Head(t)) \o JsonChars(Tail(t))

JsonString(t) == <<"\"">> \o JsonChars(t) \o <<"\"">>

\* a cell as a JSON value: None is null, a NaN is NaN
JsonValue(v) ==
    IF v = NULL THEN <<"n","u","l","l">>
    ELSE IF v = NaN THEN <<"N","a","N">>
    ELSE JsonString(v)

\* items on lines of their own, indented by ind + 2, between open and close
JsonBlock(open, items, close, ind) ==
    IF items = <<>> THEN open \o close
    ELSE open \o <<"\n">>
         \o JoinWith(<<",", "\n">>,
                     [j \in 1..Len(items) |-> Rep(" ", ind + 2) \o items[j]])
         \o <<"\n">> \o Rep(" ", ind) \o close

JsonMember(key, value) == JsonString(key) \o <<":", " ">> \o value

KEY_NAME ==
    <<"n","a","m","e">>

KEY_PRODUCTUSES ==
    <<"p","r","o","d","u","c","t","u","s","e","s">>

KEY_HOWWORKS ==
    <<"h","o","w","w","o","r","k","s">>

JsonRow(row, ind) ==
    JsonBlock(<<"{">>,
              <<JsonMember(KEY_NAME, JsonValue(row.name)),
                JsonMember(KEY_PRODUCTUSES, JsonValue(row.productuses)),
                JsonMember(KEY_HOWWORKS, JsonValue(row.howworks))>>,
              <<"}">>, ind)

JsonPassage(p, ind) ==
    JsonBlock(<<"{">>,
              <<JsonMember(<<"t","e","x","t">>, JsonString(p.text)),
                JsonMember(<<"m","e","t","a">>,
                    JsonBlock(<<"{">>,
                              <<JsonMember(KEY_NAME, JsonValue(p.meta.name))>>,
                              <<"}">>, ind + 2))>>,
              <<"}">>, ind)

JsonDumps(c) ==
    JsonBlock(<<"{">>,
              <<JsonMember(<<"s","q","l","_","r","o","w","s">>,
                    JsonBlock(<<"[">>,
                              [j \in 1..Len(c.sql_rows) |->
                                  JsonRow(c.sql_rows[j], 4)],
                              <<"]">>, 2)),
                JsonMember(<<"v","e","c","t","o","r","_","d","o","c","s">>,
                    JsonBlock(<<"[">>,
                              [j \in 1..Len(c.vector_docs) |->
                                  JsonPassage(c.vector_docs[j], 4)],
                              <<"]">>, 2))>>,
              <<"}">>, 0)

ANSWER_SYSTEM ==
    <<"Y","o","u"," ","a","n","s","w","e","r"," ","u","s","i","n","g"," ",
      "O","N","L","Y",":","\n","-"," ","S","Q","L"," ","r","o","w","s","\n",
      "-"," ","v","e","c","t","o","r"," ","d","o","c","u","m","e","n","t",
      "s","\n","\n","N","e","v","e","r"," ","i","n","v","e","n","t"," ","f",
      "a","c","t","s",".">>

\* answer_hybrid: the messages given to the chat model
AnswerMessages(q, c) ==
    <<[role |-> "system", content |-> ANSWER_SYSTEM],
      [role |-> "assistant", content |-> JsonDumps(c)],
      [role |-> "user", content |-> q]>>

(***************************************************************************)
(* Inputs and collaborator outputs of the question cycle.                  *)
(***************************************************************************)
LINE_PAIN ==
    <<"p","a","i","n">>

LINE_DRUG ==
    <<" ","d","a","a","?"," ">>

ERR_LOCKED ==
    <<"d","a","t","a","b","a","s","e"," ","i","s"," ","l","o","c","k","e",
      "d">>

ERR_CANNOT_OPEN ==
    <<"u","n","a","b","l","e"," ","t","o"," ","o","p","e","n"," ","d","a",
      "t","a","b","a","s","e"," ","f","i","l","e">>

ERR_REFUSED ==
    <<"c","o","n","n","e","c","t","i","o","n"," ","r","e","f","u","s","e",
      "d">>

SQL_ERROR_PREFIX ==
    <<"S","Q","L"," ","e","r","r","o","r",":"," ">>

ANSWER_GROUNDED ==
    <<"d","a","a"," ","t","r","e","a","t","s"," ","p","a","i","n">>

ANSWER_UNKNOWN ==
    <<"I"," ","d","o"," ","n","o","t"," ","k","n","o","w">>

\* what the user types at the prompt
InputLines ==
    {LINE_PAIN, LINE_DRUG, <<"E","X","I","T">>, <<"q","u","i","t"," ">>}

\* what the chat model answers when asked for SQL
SqlResponses ==
    {Concat(<<FragSelectAll, FragLimit>>),
     Concat(<<FragSelectName, FragJoin>>),
     Concat(<<FragSelectName, FragWherePrice>>),
     FragChatter}

\* what the chat model answers when asked the question
AnswerResponses == {ANSWER_GROUNDED, ANSWER_UNKNOWN}

\* the error texts of sqlite3 while executing a query
StoreErrors ==
    {<<"n","o"," ","s","u","c","h"," ","c","o","l","u","m","n",":"," ","p",
       "r","i","c","e">>,
     ERR_LOCKED}

\* pandas.read_sql_query wraps the store's error text
ExecutionFailed(sql_, e) ==
    <<"E","x","e","c","u","t","i","o","n"," ","f","a","i","l","e","d"," ",
      "o","n"," ","s","q","l"," ","'">> \o sql_ \o <<"'",":"," ">> \o e

\* Number of rows of the table of the relational store.
TableSize == 3

\* the table of the relational store: the first rows of the master sheet
\* as load_mid_to_sqlite wrote them
TableRows == to_sql([i \in 1..TableSize |-> MasterRow(i)])

(***************************************************************************)
(* load_mid_to_sqlite: the spreadsheet MID.xlsx becomes the table          *)
(* mid_drugs.  A sheet is its header cells and its rows of cells.          *)
(***************************************************************************)
RECURSIVE Remove(_, _)
\* t.replace(c, "") for a character c
Remove(t, c) ==
    IF t = <<>> THEN <<>>
    ELSE (IF Head(t) = c THEN <<>> ELSE <<Head(t)>>) \o Remove(Tail(t), c)

\* c.strip().lower().replace(" ", "").replace("_", "")
NormalizedColumn(c) == Remove(Remove(Lower(Strip(c)), " "), "_")

\* df.rename(columns=col_map): a normalized name that is an expected name
\* without its underscores becomes that expected name
col_map(col) ==
    LET hits == {i \in 1..Len(EXPECTED_COLUMNS) :
                    col = Remove(EXPECTED_COLUMNS[i], "_")}
    IN  IF hits = {} THEN col
        ELSE EXPECTED_COLUMNS[CHOOSE i \in hits : \A j \in hits : j <= i]

\* the sheets MID.xlsx may be, as pd.read_excel gives them: the master
\* sheet, one other drug (its third cell blank) under headers spelt the
\* spreadsheet's way beside a column the schema does not know, and no drug
\* at all
Sheets ==
    LET headers == <<
            <<"N","a","m","e">>,
            <<"P","r","o","d","u","c","t"," ","U","s","e","s">>,
            <<"H","o","w","_","W","o","r","k","s">>,
            <<"P","r","i","c","e">>>>
    IN  {[columns |-> <<KEY_NAME, KEY_PRODUCTUSES, KEY_HOWWORKS>>,
          rows |-> [i \in 1..TableSize |->
                       <<MasterRow(i).name, MasterRow(i).productuses,
                         MasterRow(i).howworks>>]],
         [columns |-> headers,
          rows |-> <<<<<<"z","z">>, <<"c","o","u","g","h">>, NaN, <<"9">>>>>>],
         [columns |-> headers, rows |-> <<>>]}

\* the rows of df after the renaming and the choice of the expected
\* columns, each with its cells of the columns name, productuses, howworks
SheetRows(sheet) ==
    LET at(name_) ==
            CHOOSE j \in 1..Len(sheet.columns) :
                col_map(NormalizedColumn(sheet.columns[j])) = name_
    IN  [i \in 1..Len(sheet.rows) |->
            [name |-> sheet.rows[i][at(KEY_NAME)],
             productuses |-> sheet.rows[i][at(KEY_PRODUCTUSES)],
             howworks |-> sheet.rows[i][at(KEY_HOWWORKS)]]]

(***************************************************************************)
(* State.                                                                  *)
(***************************************************************************)
VARIABLES
    pc,        \* where the main program (the __main__ loop and ask_mid) stands
    question,  \* ask_mid: question
    raw,       \* generate_sql: the chat model's output
    sql,       \* ask_mid: the validated query
    df,        \* ask_mid: the rows run_sql returned
    qvec,      \* vector_search: the question's embedding
    res,       \* vector_search: the ranked matches col.query returned
    vec,       \* ask_mid: the passages vector_search returned
    ctx,       \* answer_hybrid: the context
    messages,  \* answer_hybrid: the messages for the chat model
    result,    \* what ask_mid returned
    exc,       \* the exception raised last in this cycle
    conns,     \* number of open connections to the relational store
    calls,     \* the collaborator calls of this cycle, in order
    index,     \* the vector index (durable)
    table,     \* the rows of mid_drugs in the relational store (durable)
    bpc,       \* where build_vector_store stands
    b_df,      \* build_vector_store: df
    b_lists,   \* build_vector_store: docs, ids, metas
    b_new,     \* build_vector_store: the lists with their embeddings
    b_old,     \* the entries the index held when the build was called
    node,      \* research graph: the node that runs next
    state,     \* research graph: the AgentState (messages, next)
    decision,  \* supervisor_node: the text the model returned last
    steps,     \* research graph: the steps run so far
    insights,  \* what has been written to insights.txt
    db,        \* learning store: the flashcards table of learning_data.db
    now,       \* learning store: the clock (datetime.utcnow())
    deck,      \* learning store: the cards the last call returned
    op,        \* learning store: the call that ended last
    flight     \* learning store: the call each caller is in

cycle ==
    <<question, raw, sql, df, qvec, res, vec, ctx, messages, result, exc,
      calls>>
search == <<qvec, res, vec>>
builder == <<bpc, b_df, b_lists, b_new, b_old>>
rag == <<pc, cycle, conns, index, table, builder>>
agents == <<node, state, decision, steps, insights>>
learning == <<db, now, deck, op, flight>>
vars == <<rag, agents, learning>>

NoText == <<"<none>">>
NoExc == [from |-> "none", text |-> <<>>]
NoCtx == [sql_rows |-> <<>>, vector_docs |-> <<>>]
Raised(from, text) == [from |-> from, text |-> text]

(***************************************************************************)
(* The __main__ loop.                                                      *)
(***************************************************************************)
\* q = input().strip(); exit and quit leave the loop, anything else is asked
Input(line) ==
    /\ pc = "input"
    /\ LET q == Strip(line)
       IN  IF Lower(q) \in {<<"e","x","i","t">>, <<"q","u","i","t">>}
           THEN /\ pc' = "exited"
                /\ UNCHANGED cycle
           ELSE /\ pc' = "generate"
                /\ question' = q
                /\ raw' = NoText /\ sql' = NoText /\ df' = <<>>
                /\ qvec' = <<>> /\ res' = <<>> /\ vec' = <<>>
                /\ ctx' = NoCtx /\ messages' = <<>> /\ result' = NoText /\ exc' = NoExc
                /\ calls' = <<>>
    /\ UNCHANGED <<conns, index, table, builder>>
    /\ UNCHANGED <<agents, learning>>

\* print("\nAssistant:", ask_mid(q)) and the next turn of the loop
PrintAnswer ==
    /\ pc = "done"
    /\ pc' = "input"
    /\ UNCHANGED <<cycle, conns, index, table, builder>>
    /\ UNCHANGED <<agents, learning>>

(***************************************************************************)
(* ask_mid, step by step.  An exception nothing catches leaves ask_mid     *)
(* and the loop around it: the process ends (pc = "crashed").              *)
(***************************************************************************)
\* generate_sql, first half: raw = chat(messages)
GenerateSql ==
    /\ pc = "generate"
    /\ calls' = Append(calls, "chat")
    /\ \/ \E r \in SqlResponses :
             /\ raw' = r
             /\ pc' = "validate"
             /\ exc' = exc
       \/ /\ exc' = Raised("chat", ERR_REFUSED)
          /\ pc' = "crashed"
          /\ raw' = raw
    /\ UNCHANGED <<question, sql, df, search, ctx, messages, result, conns,
                   index, table, builder>>
    /\ UNCHANGED <<agents, learning>>

\* generate_sql, second half: return extract_sql(raw)
Validate ==
    /\ pc = "validate"
    /\ sql' = extract_sql(raw)
    /\ pc' = "run_sql"
    /\ UNCHANGED <<question, raw, df, search, ctx, messages, result, exc,
                   calls, conns, index, table, builder>>
    /\ UNCHANGED <<agents, learning>>

\* run_sql: conn = sqlite3.connect(DB_PATH)
RunSqlConnect ==
    /\ pc = "run_sql"
    /\ calls' = Append(calls, "sqlite.connect")
    /\ \/ /\ conns' = conns + 1
          /\ pc' = "execute"
          /\ exc' = exc
       \/ /\ exc' = Raised("sqlite", ERR_CANNOT_OPEN)
          /\ pc' = "sql_except"
          /\ conns' = conns
    /\ UNCHANGED <<question, raw, sql, df, search, ctx, messages, result,
                   index, table, builder>>
    /\ UNCHANGED <<agents, learning>>

\* run_sql: pd.read_sql_query(sql, conn), rows of the table (a NULL read
\* as None) or an error
RunSqlExecute ==
    /\ pc = "execute"
    /\ calls' = Append(calls, "sqlite.execute")
    /\ pc' = "close"
    /\ \/ \E n \in 0..Len(table) :
             /\ df' = SubSeq(table, 1, n)
             /\ exc' = exc
       \/ \E e \in StoreErrors :
             /\ exc' = Raised("sqlite", ExecutionFailed(sql, e))
             /\ df' = df
    /\ UNCHANGED <<question, raw, sql, search, ctx, messages, result, conns,
                   index, table, builder>>
    /\ UNCHANGED <<agents, learning>>

\* run_sql with conn.close() after the query instead of in a finally clause:
\* an error leaves the connection open
RunSqlClose_NoFinally ==
    /\ pc = "close"
    /\ conns' = IF exc = NoExc THEN conns - 1 ELSE conns
    /\ pc' = IF exc = NoExc THEN "vs_get" ELSE "sql_except"
    /\ UNCHANGED <<cycle, index, table, builder>>
    /\ UNCHANGED <<agents, learning>>

\* run_sql: finally: conn.close(); then on to the search, or to the handler
RunSqlClose ==
    /\ pc = "close"
    /\ conns' = conns - 1
    /\ pc' = IF exc = NoExc THEN "vs_get" ELSE "sql_except"
    /\ UNCHANGED <<cycle, index, table, builder>>
    /\ UNCHANGED <<agents, learning>>

\* ask_mid: except Exception as e: return f"SQL error: {e}"
SqlExcept ==
    /\ pc = "sql_except"
    /\ result' = SQL_ERROR_PREFIX \o exc.text
    /\ pc' = "done"
    /\ UNCHANGED <<question, raw, sql, df, search, ctx, messages, exc, calls,
                   conns, index, table, builder>>
    /\ UNCHANGED <<agents, learning>>

\* vector_search: col = get_collection()
VsGet ==
    /\ pc = "vs_get"
    /\ calls' = Append(calls, "chroma.get_collection")
    /\ \/ /\ index' = get_collection(index)
          /\ pc' = "vs_embed"
          /\ exc' = exc
       \/ /\ exc' = Raised("chroma", ERR_REFUSED)
          /\ pc' = "crashed"
          /\ index' = index
    /\ UNCHANGED <<question, raw, sql, df, search, ctx, messages, result,
                   conns, table, builder>>
    /\ UNCHANGED <<agents, learning>>

\* vector_search: qvec = embed(query)
VsEmbed ==
    /\ pc = "vs_embed"
    /\ calls' = Append(calls, "embed")
    /\ \/ /\ qvec' = embed(question)
          /\ pc' = "vs_query"
          /\ exc' = exc
       \/ /\ exc' = Raised("embed", ERR_REFUSED)
          /\ pc' = "crashed"
          /\ qvec' = qvec
    /\ UNCHANGED <<question, raw, sql, df, res, vec, ctx, messages, result,
                   conns, index, table, builder>>
    /\ UNCHANGED <<agents, learning>>

\* vector_search: res = col.query(query_embeddings=[qvec], n_results=5)
\* and the passages made of it
VsQuery ==
    /\ pc = "vs_query"
    /\ calls' = Append(calls, "chroma.query")
    /\ \/ /\ res' = Ranked(index.entries, qvec, N_RESULTS)
          /\ vec' = Passages(res')
          /\ pc' = "searched"
          /\ exc' = exc
       \/ /\ exc' = Raised("chroma", ERR_REFUSED)
          /\ pc' = "crashed"
          /\ UNCHANGED <<res, vec>>
    /\ UNCHANGED <<question, raw, sql, df, qvec, ctx, messages, result,
                   conns, index, table, builder>>
    /\ UNCHANGED <<agents, learning>>

\* answer_hybrid with the rows put into the context last row first
Assemble_RowsReversed ==
    /\ pc = "searched"
    /\ ctx' = [sql_rows |-> [j \in 1..Len(df) |-> df[Len(df) + 1 - j]],
               vector_docs |-> vec]
    /\ messages' = AnswerMessages(question, ctx')
    /\ pc' = "answer"
    /\ UNCHANGED <<question, raw, sql, df, search, result, exc, calls, conns,
                   index, table, builder>>
    /\ UNCHANGED <<agents, learning>>

\* answer_hybrid: ctx = {"sql_rows": ..., "vector_docs": vec_docs}
Assemble ==
    /\ pc = "searched"
    /\ ctx' = [sql_rows |-> df, vector_docs |-> vec]
    /\ messages' = AnswerMessages(question, ctx')
    /\ pc' = "answer"
    /\ UNCHANGED <<question, raw, sql, df, search, result, exc, calls, conns,
                   index, table, builder>>
    /\ UNCHANGED <<agents, learning>>

\* answer_hybrid: return chat(messages)
Answer ==
    /\ pc = "answer"
    /\ calls' = Append(calls, "chat")
    /\ \/ \E a \in AnswerResponses :
             /\ result' = a
             /\ pc' = "done"
             /\ exc' = exc
       \/ /\ exc' = Raised("chat", ERR_REFUSED)
          /\ pc' = "crashed"
          /\ result' = result
    /\ UNCHANGED <<question, raw, sql, df, search, ctx, messages, conns,
                   index, table, builder>>
    /\ UNCHANGED <<agents, learning>>

(***************************************************************************)
(* load_mid_to_sqlite(): mid.db is removed and the table is written anew   *)
(* from the sheet.  __main__ calls it before the first prompt when mid.db  *)
(* is missing; here it is a call made between two questions, while the     *)
(* loop waits at its prompt.  The connection it opens is closed before it  *)
(* returns.                                                                *)
(***************************************************************************)
load_mid_to_sqlite(sheet) ==
    /\ pc = "input"
    /\ table' = to_sql(SheetRows(sheet))
    /\ UNCHANGED <<pc, cycle, conns, index, builder>>
    /\ UNCHANGED <<agents, learning>>

(***************************************************************************)
(* The program after start-up: the table is loaded, the vector store was   *)
(* built in this run or found on disk, the prompt is shown.                *)
(***************************************************************************)
CycleInit ==
    /\ question = NoText /\ raw = NoText /\ sql = NoText /\ df = <<>>
    /\ qvec = <<>> /\ res = <<>> /\ vec = <<>>
    /\ ctx = NoCtx /\ messages = <<>> /\ result = NoText /\ exc = NoExc /\ calls = <<>>
    /\ conns = 0

BuilderIdle ==
    /\ bpc = "idle" /\ b_df = <<>> /\ b_lists = <<>> /\ b_new = <<>>
    /\ b_old = <<>>

\* the names LangGraph gives the start and the end of a graph
START == "__start__"

END == "__end__"

\* the research graph has not been started
AgentsIdle ==
    /\ node = START
    /\ state = [messages |-> <<>>, next |-> ""]
    /\ decision = NoText
    /\ steps = 0
    /\ insights = <<>>

\* the callers of store.py that are inside a call at a time
Conns == {"a", "b"}

\* a caller that is in no call
NoCall ==
    [fn |-> "none", pc |-> "idle", cards |-> <<>>, topic |-> NULL,
     limit |-> 0, now |-> NoText, created_at |-> NoText]

\* learning_data.db does not exist yet and nobody is in a call
LearningIdle ==
    /\ db = [created |-> FALSE, flashcards |-> <<>>]
    /\ now = 0
    /\ deck = <<>>
    /\ op = [fn |-> "none", raised |-> FALSE]
    /\ flight = [p \in Conns |-> NoCall]

\* __main__ has come to its first prompt.  mid.db holds a sheet.  When the
\* file was missing load_mid_to_sqlite wrote it now and df_mid is the
\* DataFrame it returned; otherwise df_mid is the table read back.  When
\* CHROMA_DIR was missing or empty the index has been built over df_mid
\* (its first 5000 rows, here all of them); otherwise it is what an earlier
\* run left there: nothing that opens as a collection, a collection without
\* entries, or the index that run built over its df_mid.
Init ==
    /\ pc = "input"
    /\ CycleInit
    /\ BuilderIdle
    /\ \E sheet \in Sheets :
          /\ table = to_sql(SheetRows(sheet))
          /\ \/ index = BuiltIndex(SheetRows(sheet))
             \/ index = BuiltIndex(table)
             \/ index \in {NoIndex, BuiltIndex(<<>>)}
                             \cup {BuiltIndex(SheetRows(s)) : s \in Sheets}
                             \cup {BuiltIndex(to_sql(SheetRows(s))) : s \in Sheets}
    /\ AgentsIdle
    /\ LearningIdle

Next ==
    \/ \E line \in InputLines : Input(line)
    \/ GenerateSql
    \/ Validate
    \/ RunSqlConnect
    \/ RunSqlExecute
    \/ RunSqlClose
    \/ SqlExcept
    \/ VsGet
    \/ VsEmbed
    \/ VsQuery
    \/ Assemble
    \/ Answer
    \/ PrintAnswer
    \/ \E sheet \in Sheets : load_mid_to_sqlite(sheet)

Spec == Init /\ [][Next]_vars

(***************************************************************************)
(* build_vector_store, step by step, beside a caller of vector_search:     *)
(* the index lives on disk under CHROMA_DIR and is shared by every process *)
(* that opens it.                                                          *)
(***************************************************************************)
\* build_vector_store(df) is called
BuildCall(d) ==
    /\ bpc = "idle"
    /\ b_df' = d
    /\ b_old' = index.entries
    /\ bpc' = "get"
    /\ UNCHANGED <<pc, cycle, conns, index, table, b_lists, b_new>>
    /\ UNCHANGED <<agents, learning>>

\* col = get_collection()
BuildGet ==
    /\ bpc = "get"
    /\ \/ /\ index' = get_collection(index)
          /\ bpc' = "delete"
       \/ /\ bpc' = "failed"
          /\ index' = index
    /\ UNCHANGED <<pc, cycle, conns, table, b_df, b_lists, b_new, b_old>>
    /\ UNCHANGED <<agents, learning>>

\* try: col.delete() except: pass -- the entries are cleared, or the call
\* raises and the error is dropped
BuildDelete ==
    /\ bpc = "delete"
    /\ \/ index' = [index EXCEPT !.entries = <<>>]
       \/ index' = index
    /\ bpc' = "prepare"
    /\ UNCHANGED <<pc, cycle, conns, table, b_df, b_lists, b_new, b_old>>
    /\ UNCHANGED <<agents, learning>>

\* the loop over df.iterrows(); with no chunk there is nothing to embed
BuildPrepare ==
    /\ bpc = "prepare"
    /\ b_lists' = BuildLists(b_df, 1)
    /\ bpc' = IF b_lists' = <<>> THEN "add" ELSE "embed"
    /\ UNCHANGED <<pc, cycle, conns, index, table, b_df, b_new, b_old>>
    /\ UNCHANGED <<agents, learning>>

\* embeddings = [embed(d) for d in docs]: one request of the embedding
\* model for the next chunk, which may fail
BuildEmbed ==
    /\ bpc = "embed"
    /\ \/ /\ b_new' = Append(b_new, WithEmbeddings(b_lists)[Len(b_new) + 1])
          /\ bpc' = IF Len(b_new') = Len(b_lists) THEN "add" ELSE "embed"
       \/ /\ bpc' = "failed"
          /\ b_new' = b_new
    /\ UNCHANGED <<pc, cycle, conns, index, table, b_df, b_lists, b_old>>
    /\ UNCHANGED <<agents, learning>>

\* col.add(documents=docs, ids=ids, embeddings=embeddings, metadatas=metas)
BuildAdd ==
    /\ bpc = "add"
    /\ \/ /\ index' = [index EXCEPT !.entries = AddEntries(@, b_new)]
          /\ bpc' = "built"
       \/ /\ bpc' = "failed"
          /\ index' = index
    /\ UNCHANGED <<pc, cycle, conns, table, b_df, b_lists, b_new, b_old>>
    /\ UNCHANGED <<agents, learning>>

\* vector_search(query) is called
SearchCall(line) ==
    /\ pc = "input"
    /\ pc' = "vs_get"
    /\ question' = Strip(line)
    /\ qvec' = <<>> /\ res' = <<>> /\ vec' = <<>>
    /\ exc' = NoExc
    /\ calls' = <<>>
    /\ UNCHANGED <<raw, sql, df, ctx, messages, result, conns, index, table,
                   builder>>
    /\ UNCHANGED <<agents, learning>>

\* vector_search has returned to its caller
SearchReturn ==
    /\ pc = "searched"
    /\ pc' = "input"
    /\ UNCHANGED <<cycle, conns, index, table, builder>>
    /\ UNCHANGED <<agents, learning>>

InitBuild ==
    /\ pc = "input"
    /\ CycleInit
    /\ BuilderIdle
    /\ table = TableRows
    /\ index \in {NoIndex, BuiltIndex(TableRows)}
    /\ AgentsIdle
    /\ LearningIdle

NextBuild ==
    \/ \E d \in Corpora : BuildCall(d)
    \/ BuildGet
    \/ BuildDelete
    \/ BuildPrepare
    \/ BuildEmbed
    \/ BuildAdd
    \/ \E line \in {LINE_PAIN, LINE_DRUG} : SearchCall(line)
    \/ VsGet
    \/ VsEmbed
    \/ VsQuery
    \/ SearchReturn

SpecBuild == InitBuild /\ [][NextBuild]_vars

(***************************************************************************)
(* The validator alone, applied to every candidate.                        *)
(***************************************************************************)
InitValidator ==
    /\ pc = "validate"
    /\ raw \in Candidates
    /\ question = NoText /\ sql = NoText /\ df = <<>>
    /\ qvec = <<>> /\ res = <<>> /\ vec = <<>>
    /\ ctx = NoCtx /\ messages = <<>> /\ result = NoText /\ exc = NoExc /\ calls = <<>>
    /\ conns = 0
    /\ BuilderIdle
    /\ table = TableRows
    /\ index = NoIndex
    /\ AgentsIdle
    /\ LearningIdle

NextValidator == Validate

SpecValidator == InitValidator /\ [][NextValidator]_vars

(***************************************************************************)
(* Vocabulary of the claims about returned queries.                        *)
(***************************************************************************)
ASCII_UPPER ==
    <<"A","B","C","D","E","F","G","H","I","J","K","L","M",
      "N","O","P","Q","R","S","T","U","V","W","X","Y","Z">>

ASCII_LOWER ==
    <<"a","b","c","d","e","f","g","h","i","j","k","l","m",
      "n","o","p","q","r","s","t","u","v","w","x","y","z">>

Digits == {"0","1","2","3","4","5","6","7","8","9"}

\* the characters an identifier or keyword is made of
IdentChar(c) ==
    \/ \E i \in 1..26 : c = ASCII_UPPER[i] \/ c = ASCII_LOWER[i]
    \/ c \in Digits \cup {"_", "U+0130", "U+0307"}

\* w stands in t at position i as a word of its own
WordAt(w, t, i) ==
    /\ OccursAt(w, t, i)
    /\ (i = 1 \/ ~IdentChar(t[i - 1]))
    /\ (i + Len(w) > Len(t) \/ ~IdentChar(t[i + Len(w)]))

\* t holds the word w, in any letter case
HasWord(t, w) ==
    LET lt == Lower(t) IN \E i \in 1..Len(lt) : WordAt(w, lt, i)

\* the identifier that starts at position i of t
WordFrom(t, i) ==
    LET stop == {j \in i..Len(t) : ~IdentChar(t[j])}
        last == IF stop = {} THEN Len(t)
                ELSE (CHOOSE j \in stop : \A k \in stop : j <= k) - 1
    IN  SubSeq(t, i, last)

\* the identifiers that follow, after whitespace, one of the words ws
WordsAfter(t, ws) ==
    LET lt == Lower(t)
    IN  {WordFrom(lt, i) : i \in
            {i \in 2..Len(lt) :
                /\ IdentChar(lt[i])
                /\ lt[i] \notin Digits
                /\ lt[i - 1] \in Whitespace
                /\ \E w \in ws : \E k \in 1..(i - 1) :
                      /\ WordAt(w, lt, k)
                      /\ k + Len(w) <= i
                      /\ \A m \in (k + Len(w))..(i - 1) : lt[m] \in Whitespace}}

W_JOIN ==
    <<"j","o","i","n">>

W_LIMIT ==
    <<"l","i","m","i","t">>

W_WHERE ==
    <<"w","h","e","r","e">>

W_AND ==
    <<"a","n","d">>

W_OR ==
    <<"o","r">>

W_DROP ==
    <<"d","r","o","p">>

W_DELETE ==
    <<"d","e","l","e","t","e">>

W_INSERT ==
    <<"i","n","s","e","r","t">>

W_UPDATE ==
    <<"u","p","d","a","t","e">>

W_ALTER ==
    <<"a","l","t","e","r">>

W_CREATE ==
    <<"c","r","e","a","t","e">>

WriteKeywords == {W_DROP, W_DELETE, W_INSERT, W_UPDATE, W_ALTER, W_CREATE}

SchemaColumns == {EXPECTED_COLUMNS[i] : i \in 1..Len(EXPECTED_COLUMNS)}

\* the columns a query names in its select list or in a filter
ColumnRefs(t) == WordsAfter(t, {KW_SELECT, W_WHERE, W_AND, W_OR})

\* the columns a query names in a filter
FilterColumns(t) == WordsAfter(t, {W_WHERE, W_AND, W_OR})

ReadOnly(t) == \A w \in WriteKeywords : ~HasWord(t, w)

RowLimited(t) == HasWord(t, W_LIMIT)

\* the read keyword occurs in t, in any letter case
HasSelect(t) ==
    \E i \in 1..(Len(t) - 5) : Lower(SubSeq(t, i, i + 5)) = KW_SELECT

\* t from the first occurrence of the read keyword onward, trimmed
FromSelect(t) ==
    LET at == {i \in 1..(Len(t) - 5) : Lower(SubSeq(t, i, i + 5)) = KW_SELECT}
        first == CHOOSE i \in at : \A j \in at : i <= j
    IN  Strip(SubSeq(t, first, Len(t)))

Validated == pc = "run_sql"

(***************************************************************************)
(* C1.  For every candidate, extract_sql returns a query that is           *)
(* read-only (no write/DDL keyword), holds no join keyword, names only     *)
(* columns of EXPECTED_COLUMNS and is bounded by a row limit.              *)
(***************************************************************************)
C1_ValidatedQuerySafe ==
    Validated =>
        /\ ReadOnly(sql)
        /\ ~HasWord(sql, W_JOIN)
        /\ ColumnRefs(sql) \subseteq SchemaColumns
        /\ RowLimited(sql)

(***************************************************************************)
(* C2.  For every candidate that holds a join marker, in any letter case   *)
(* and with any whitespace around it, extract_sql returns SAFE_DEFAULT,    *)
(* and validating that result again returns it unchanged.                  *)
(***************************************************************************)
C2_JoinGivesSafeDefault ==
    (Validated /\ HasWord(raw, W_JOIN)) =>
        /\ sql = SAFE_DEFAULT
        /\ extract_sql(sql) = SAFE_DEFAULT

(***************************************************************************)
(* C3.  A candidate without the read keyword gives SAFE_DEFAULT; a         *)
(* candidate with it, when neither fallback applies, gives the candidate   *)
(* from the first occurrence of the read keyword onward, trimmed.          *)
(***************************************************************************)
C3_ExtractFromFirstSelect ==
    Validated =>
        IF ~HasSelect(raw) THEN sql = SAFE_DEFAULT
        ELSE \/ Contains(Lower(FromSelect(raw)), KW_JOIN_SPACED)
             \/ Contains(Lower(FromSelect(raw)), KW_DRUG_NAME)
             \/ sql = FromSelect(raw)

(***************************************************************************)
(* C4.  For every candidate that names, in a filter, a column that is not  *)
(* in EXPECTED_COLUMNS, extract_sql returns WILDCARD_DEFAULT.              *)
(***************************************************************************)
C4_UnknownColumnGivesWildcard ==
    (Validated /\ HasSelect(raw)
        /\ ~(FilterColumns(FromSelect(raw)) \subseteq SchemaColumns)) =>
        sql = WILDCARD_DEFAULT

(***************************************************************************)
(* Vocabulary of the claims about a question's cycle.                      *)
(***************************************************************************)
\* ask_mid has returned (the value is in result)
Returned == pc \in {"done", "input", "exited"} /\ result # NoText

\* an exception has left ask_mid
Escaped == pc = "crashed"

\* the store raised while the query was run
StoreRaised == exc.from = "sqlite"

\* the number of calls named c in this cycle
Count(c) == Cardinality({i \in 1..Len(calls) : calls[i] = c})

\* the order of the collaborator calls of a cycle that runs to its end
LinearOrder ==
    <<"chat", "sqlite.connect", "sqlite.execute", "chroma.get_collection",
      "embed", "chroma.query", "chat">>

IsPrefix(s, t) == Len(s) <= Len(t) /\ SubSeq(t, 1, Len(s)) = s

(***************************************************************************)
(* C5.  When the store raises while the validated query is run, ask_mid    *)
(* does not raise: it returns "SQL error" with the error's text, nothing   *)
(* of the cycle follows (no search, no answer, no second attempt) and the  *)
(* connection is closed.                                                   *)
(***************************************************************************)
C5_StoreErrorReturned ==
    StoreRaised =>
        /\ ~Escaped
        /\ pc \in {"close", "sql_except", "done", "input", "exited"}
        /\ Count("sqlite.connect") = 1
        /\ Count("sqlite.execute") <= 1
        /\ Count("chroma.get_collection") = 0
        /\ Count("embed") = 0
        /\ Count("chroma.query") = 0
        /\ Count("chat") = 1
        /\ pc \in {"sql_except", "done", "input", "exited"} => conns = 0
        /\ pc \in {"done", "input", "exited"} =>
              /\ result = SQL_ERROR_PREFIX \o exc.text
              /\ Contains(result, SubSeq(SQL_ERROR_PREFIX, 1, 9))
              /\ \E e \in StoreErrors \cup {ERR_CANNOT_OPEN} :
                    Contains(result, e)

\* the store raised on executing the query and ask_mid has returned
C5_Witness ==
    /\ pc = "done"
    /\ StoreRaised
    /\ Count("sqlite.execute") = 1
    /\ Contains(result, ERR_LOCKED)

(***************************************************************************)
(* C6.  Whatever collaborator fails in a cycle, ask_mid returns a value    *)
(* and no exception leaves it, so the loop goes on to the next question.   *)
(***************************************************************************)
C6_NoExceptionEscapes == ~Escaped

(***************************************************************************)
(* C10.  The cycle's steps follow the linear order, and the value the      *)
(* cycle returns is the one it would return with the approximate search    *)
(* run before the structured query, whatever the two channels' outcomes.   *)
(***************************************************************************)
\* what the cycle gives its caller: a value, or an exception
Given ==
    IF Escaped THEN [kind |-> "exception", text |-> exc.text]
    ELSE [kind |-> "value", text |-> result]

\* what the same steps give with the search run first, the search ending
\* as vOut and the rest as it did: a failed search raises before the query
\* is run, a failed query gives the error string, else the same answer
GivenSearchFirst(vOut) ==
    IF vOut = "raise" THEN [kind |-> "exception", text |-> ERR_REFUSED]
    ELSE IF StoreRaised
         THEN [kind |-> "value", text |-> SQL_ERROR_PREFIX \o exc.text]
         ELSE Given

\* the outcomes the search can have in a cycle that ended as this one did
SearchOutcomes ==
    IF Count("chroma.get_collection") = 0 THEN {"ok", "raise"}
    ELSE IF Escaped /\ exc.from \in {"chroma", "embed"} THEN {"raise"}
    ELSE {"ok"}

C10_OrderIndependent ==
    /\ IsPrefix(calls, LinearOrder)
    /\ (pc \in {"done", "crashed"} /\ Count("sqlite.connect") = 1) =>
          \A vOut \in SearchOutcomes : Given = GivenSearchFirst(vOut)

(***************************************************************************)
(* Vocabulary of the claims about the approximate search.                  *)
(***************************************************************************)
\* vector_search has returned its passages
Searched == pc = "searched"

\* the passages are in the order of non-increasing cosine similarity of
\* their text's embedding with the question's
BySimilarity(ps) ==
    \A j \in 1..(Len(ps) - 1) :
        ~CosCloser(qvec, embed(ps[j + 1].text), embed(ps[j].text))

(***************************************************************************)
(* C7.  The search returns at most k passages, for every k from 1 to the   *)
(* default 5 that search(question, k) is asked for, in the order of        *)
(* non-increasing similarity.                                              *)
(***************************************************************************)
C7_AtMostRequestedK ==
    Searched =>
        /\ \A k \in 1..N_RESULTS : Len(vec) <= k
        /\ BySimilarity(vec)

(***************************************************************************)
(* C9.  A search that runs while build_vector_store rebuilds the index     *)
(* sees the whole old content or the whole new content of the index.       *)
(***************************************************************************)
\* the entries a build over b_df is to leave in the index
NewEntries == BuiltIndex(b_df).entries

C9_RebuildAtomic ==
    (Searched /\ bpc # "idle") =>
        \/ res = Ranked(b_old, qvec, N_RESULTS)
        \/ res = Ranked(NewEntries, qvec, N_RESULTS)

(***************************************************************************)
(* C8.  The context assembled for the answerer is, serialized, no longer   *)
(* than max_chars, for every max_chars its caller asks for, and what is    *)
(* left out is whole passages from the end (the least similar), then       *)
(* whole rows from the end.                                                *)
(***************************************************************************)
\* Largest max_chars a caller asks for.
MaxChars == 200

\* the values of max_chars a caller asks for: none below the empty context
RequestedMaxChars == Len(JsonDumps(NoCtx))..MaxChars

\* answer_hybrid has put the context and the messages together
Assembled == pc = "answer"

C8_ContextWithinMaxChars ==
    Assembled =>
        /\ \A max_chars \in RequestedMaxChars :
              Len(messages[2].content) <= max_chars
        /\ IsPrefix(ctx.sql_rows, df)
        /\ IsPrefix(ctx.vector_docs, vec)

(***************************************************************************)
(* C11.  With an index of zero entries and a query that returned n rows,   *)
(* the search returns an empty sequence, the context holds the n rows in   *)
(* the order they were returned and no passage (a passage, where there is  *)
(* one, has a text and a metadata and nothing else), and the answerer is   *)
(* called all the same, its response being what ask_mid returns.           *)
(***************************************************************************)
\* the index has no entry and the search of this cycle has returned
SearchedEmptyIndex ==
    /\ index.entries = <<>>
    /\ exc = NoExc
    /\ pc \in {"searched", "answer", "done"}

C11_EmptyIndexStillAnswers ==
    /\ \A j \in 1..Len(ctx.vector_docs) :
          DOMAIN ctx.vector_docs[j] = {"text", "meta"}
    /\ SearchedEmptyIndex =>
          /\ res = <<>>
          /\ vec = <<>>
          /\ IsPrefix(df, table)
          /\ pc \in {"answer", "done"} =>
                /\ ctx.sql_rows = df
                /\ ctx.vector_docs = <<>>
                /\ messages = AnswerMessages(question, ctx)
          /\ pc = "answer" => calls = SubSeq(LinearOrder, 1, 6)
          /\ pc = "done" =>
                /\ calls = LinearOrder
                /\ result \in AnswerResponses

\* scenario 3: no entry in the index, the query returned 3 rows, the
\* answerer was called with the 3 rows and no passage, and has answered
C11_Witness ==
    /\ SearchedEmptyIndex
    /\ pc = "done"
    /\ Len(df) = 3
    /\ Len(ctx.sql_rows) = 3
    /\ ctx.sql_rows[1] # ctx.sql_rows[3]
    /\ ctx.vector_docs = <<>>
    /\ result = ANSWER_GROUNDED

(***************************************************************************)
(* C12.  No step of a question's cycle changes the table of the relational *)
(* store or the vector index (its collection, its entries), whether the    *)
(* cycle returns an answer, returns an error or raises; the schema         *)
(* (EXPECTED_COLUMNS) is a constant of the program.  The steps of a cycle  *)
(* are the steps that move the program on from where it stands.            *)
(***************************************************************************)
C12_StoresUnchanged ==
    [][(pc' # pc) => (index' = index /\ table' = table)]_vars

(***************************************************************************)
(* C13.  When build_vector_store has run over a corpus, the index holds    *)
(* one entry for each record of the corpus whose chunk is not empty, under *)
(* the record's row label as its id, and no other entry, none of an        *)
(* earlier build either; the text of an entry is the record's chunk, not   *)
(* empty and of at most 300 characters, and no two entries share an id.    *)
(***************************************************************************)
\* build_vector_store has returned
Built == bpc = "built"

\* the rows of the corpus that have a chunk
Chunked == {i \in 1..Len(b_df) : Chunk(b_df[i]) # <<>>}

C13_IndexIsCorpusChunks ==
    Built =>
        LET es == index.entries
        IN  /\ \A i \in Chunked :
                  \E j \in 1..Len(es) :
                      /\ es[j].id = IntToStr(i - 1)
                      /\ es[j].document = Chunk(b_df[i])
            /\ \A j \in 1..Len(es) :
                  /\ \E i \in Chunked : es[j].id = IntToStr(i - 1)
                  /\ es[j].document # <<>>
                  /\ Len(es[j].document) <= 300
            /\ \A j, k \in 1..Len(es) : es[j].id = es[k].id => j = k
            /\ Len(es) = Cardinality(Chunked)

(***************************************************************************)
(* "ai_research_agents/ai_research_agents.py": a LangGraph StateGraph of   *)
(* a supervisor and two workers.  The state of the graph is the AgentState *)
(* (messages, with operator.add as its reducer, and next); every node      *)
(* calls the chat model, whose response is any text.                       *)
(***************************************************************************)
KW_WEB ==
    <<"W","E","B">>

KW_INSIGHT ==
    <<"I","N","S","I","G","H","T">>

KW_FINISH ==
    <<"F","I","N","I","S","H">>

members == {"Web_Searcher", "Insight_Researcher"}

options == {"FINISH"} \cup members

\* supervisor_node with the test for INSIGHT before the test for WEB
supervisor_choice_InsightFirst(content) ==
    LET raw_choice == Upper(Strip(content))
    IN  IF Contains(raw_choice, KW_INSIGHT) THEN "Insight_Researcher"
        ELSE IF Contains(raw_choice, KW_WEB) THEN "Web_Searcher"
        ELSE IF Contains(raw_choice, KW_FINISH) THEN "FINISH"
        ELSE "FINISH"

\* supervisor_node, "Normalize LLM choice": the choice for the content of
\* the model's decision message
supervisor_choice(content) ==
    LET raw_choice == Upper(Strip(content))
    IN  IF Contains(raw_choice, KW_WEB) THEN "Web_Searcher"
        ELSE IF Contains(raw_choice, KW_INSIGHT) THEN "Insight_Researcher"
        ELSE IF Contains(raw_choice, KW_FINISH) THEN "FINISH"
        ELSE "FINISH"

\* the conditional edges of the supervisor
conditional_map ==
    [choice \in options |-> IF choice = "FINISH" THEN END ELSE choice]

HumanMessage(content) ==
    [type |-> "human", content |-> content, name |-> "None"]

AIMessage(content, name) ==
    [type |-> "ai", content |-> content, name |-> name]

\* The steps graph.stream runs before it raises GraphRecursionError: no
\* config is given, so LangGraph's default recursion_limit holds.
RECURSION_LIMIT == 25

TOPIC_PROMPT ==
    <<"P","l","e","a","s","e"," ","r","e","s","e","a","r","c","h"," ","t",
      "h","i","s"," ","t","o","p","i","c",":"," ">>

\* what the user types as the topic
Topics == {<<"a","i">>}

SAY_DONE ==
    <<"A","l","l"," ","d","o","n","e",".">>

\* what the chat model answers the supervisor
SupervisorResponses ==
    {<<"W","e","b","_","S","e","a","r","c","h","e","r">>,
     <<"I","n","s","i","g","h","t","_","R","e","s","e","a","r","c","h","e",
       "r">>,
     <<"F","I","N","I","S","H">>,
     <<" ","f","i","n","i","s","h","\n">>,
     <<"w","e","b","_","s","e","a","r","c","h","e","r",","," ","t","h","e",
       "n"," ","i","n","s","i","g","h","t">>,
     <<"U+0131","n","s","U+0131","g","h","t","_","r","e","s","e","a","r","c",
       "h","e","r">>,
     <<"i","n","U+017F","i","g","h","t">>,
     SAY_DONE,
     <<>>}

\* what the chat model answers the workers
WebSummaries == {<<"t","r","e","n","d","s">>}

InsightTexts == {<<"t","o","p","i","c","s">>}

\* save_insights_to_txt: the line written between two entries
SEPARATOR == <<"\n", "\n">> \o Rep("-", 80) \o <<"\n", "\n">>

\* graph.stream({"messages": [initial_message], "next": ""}): the graph
\* starts at its entry point
Stream(topic) ==
    /\ node = START
    /\ state' = [messages |-> <<HumanMessage(TOPIC_PROMPT \o topic)>>,
                 next |-> ""]
    /\ node' = "supervisor"
    /\ UNCHANGED <<decision, steps, insights, rag, learning>>

\* supervisor_node and the conditional edges after it: the model decides,
\* or the call of the model raises
SupervisorNode ==
    /\ node = "supervisor"
    /\ steps < RECURSION_LIMIT
    /\ steps' = steps + 1
    /\ \/ \E content \in SupervisorResponses :
             /\ decision' = content
             /\ state' = [state EXCEPT !.next = supervisor_choice(content)]
             /\ node' = conditional_map[state'.next]
       \/ /\ node' = "raised"
          /\ UNCHANGED <<state, decision>>
    /\ UNCHANGED <<insights, rag, learning>>

\* web_searcher_node and the edge to the supervisor: the summary is added
\* to the messages, or the search or the model raises; the supervisor's
\* decision message is a local of a call that has returned
WebSearcherNode ==
    /\ node = "Web_Searcher"
    /\ steps < RECURSION_LIMIT
    /\ steps' = steps + 1
    /\ \/ \E content \in WebSummaries :
             /\ state' = [state EXCEPT !.messages =
                             @ \o <<AIMessage(content, "Web_Searcher")>>]
             /\ node' = "supervisor"
       \/ /\ node' = "raised"
          /\ state' = state
    /\ decision' = NoText
    /\ UNCHANGED <<insights, rag, learning>>

\* insight_researcher_node and the edge to the supervisor: the analysis is
\* appended to insights.txt and added to the messages, or the model raises
InsightResearcherNode ==
    /\ node = "Insight_Researcher"
    /\ steps < RECURSION_LIMIT
    /\ steps' = steps + 1
    /\ \/ \E content \in InsightTexts :
             /\ insights' = insights \o <<content, SEPARATOR>>
             /\ state' = [state EXCEPT !.messages =
                             @ \o <<AIMessage(content, "Insight_Researcher")>>]
             /\ node' = "supervisor"
       \/ /\ node' = "raised"
          /\ UNCHANGED <<state, insights>>
    /\ decision' = NoText
    /\ UNCHANGED <<rag, learning>>

\* graph.stream raises GraphRecursionError: RECURSION_LIMIT nodes have run
\* and the graph has not come to its end; before that it is not raised
OutOfSteps ==
    /\ node \in {"supervisor"} \cup members
    /\ steps = RECURSION_LIMIT
    /\ node' = "GraphRecursionError"
    /\ UNCHANGED <<state, decision, steps, insights, rag, learning>>

\* hybridRAG.py is not running
RagIdle ==
    /\ pc = "exited"
    /\ CycleInit
    /\ BuilderIdle
    /\ table = TableRows
    /\ index = NoIndex

InitGraph ==
    /\ RagIdle
    /\ AgentsIdle
    /\ LearningIdle

NextGraph ==
    \/ \E topic \in Topics : Stream(topic)
    \/ SupervisorNode
    \/ WebSearcherNode
    \/ InsightResearcherNode
    \/ OutOfSteps

SpecGraph == InitGraph /\ [][NextGraph]_vars

\* the loop of graph.stream runs the next node as long as there is one
SpecGraphFair == SpecGraph /\ WF_vars(NextGraph)

(***************************************************************************)
(* C14.  After every decision of the model, next is the one of             *)
(* Web_Searcher, Insight_Researcher, FINISH that the upper-cased text      *)
(* gives: Web_Searcher if it contains WEB, else Insight_Researcher if it   *)
(* contains INSIGHT, else FINISH.  The graph starts at the supervisor; a   *)
(* worker's step leads to the supervisor and the step that follows it is   *)
(* the supervisor's (the limit of graph.stream does not come between the   *)
(* two); the graph is at its end exactly when next is FINISH, and the      *)
(* messages change only by a worker's step appending its one message.      *)
(***************************************************************************)
\* the next the claim gives for a text of the model
ClaimedNext(text) ==
    IF Contains(Upper(text), KW_WEB) THEN "Web_Searcher"
    ELSE IF Contains(Upper(text), KW_INSIGHT) THEN "Insight_Researcher"
    ELSE "FINISH"

\* a worker's step has returned its update
WorkerStepped == node \in members /\ steps' # steps /\ node' = "supervisor"

\* a worker's step was the last step: the supervisor is the next node and
\* is not the entry point of a run that has made no step yet
AfterWorker == node = "supervisor" /\ steps > 0

C14_SupervisorRouting ==
    /\ [](state.next = "" => decision = NoText)
    /\ [](decision # NoText =>
             /\ state.next \in options
             /\ state.next = ClaimedNext(decision))
    /\ [](node = END <=> state.next = "FINISH")
    /\ [][node = START => (node' = "supervisor")]_vars
    /\ [][(node \in members /\ steps' # steps) =>
             (node' \in {"supervisor", "raised"})]_vars
    /\ [][AfterWorker => (steps' = steps + 1)]_vars
    /\ [][IF WorkerStepped
          THEN /\ Len(state'.messages) = Len(state.messages) + 1
               /\ IsPrefix(state.messages, state'.messages)
               /\ state'.messages[Len(state'.messages)].name = node
          ELSE (node # START => state'.messages = state.messages)]_vars

\* the model chose the searcher, then the researcher, then said something
\* that names none of the options: the graph is at its end
C14_Witness ==
    /\ node = END
    /\ decision = SAY_DONE
    /\ ClaimedNext(decision) = "FINISH"
    /\ state.next = "FINISH"
    /\ Len(state.messages) = 3
    /\ state.messages[2].name = "Web_Searcher"
    /\ state.messages[3].name = "Insight_Researcher"

(***************************************************************************)
(* C15.  Whatever the model answers the supervisor, the graph comes to its *)
(* end after finitely many steps (or a collaborator raises).               *)
(***************************************************************************)
C15_ReachesEnd == <>(node \in {END, "raised"})

(***************************************************************************)
(* "medgemma-learning-assistant/store.py": the notes and flashcards of the *)
(* SQLite store.  Every function opens its own connection.  The functions  *)
(* that call init_db commit the creation of the tables first and run their *)
(* own statement afterwards, so the calls of other connections and the     *)
(* clock come between the two; a statement and its commit are one step,    *)
(* SQLite showing other connections nothing of an open transaction.       *)
(* Timestamps are the texts datetime.utcnow().isoformat() gives, and       *)
(* SQLite compares them as texts.  Of the notes table only its creation is *)
(* kept: it is created together with the flashcards table.                 *)
(***************************************************************************)
\* Largest number of rows of the flashcards table.
MaxCards == 2

\* Latest reading of the clock, in half seconds after the first.
MaxTime == 1

\* Largest limit a caller gives besides the default.
MaxLimit == 1

\* the limit of get_flashcards_for_review when none is given
DEFAULT_LIMIT == 20

\* the clock's first reading is 10:30:09.500000 on the first of May 2024
FIRST_SECOND == 9

\* two digits with the tens in one digit
TwoDigits_Unpadded(n) == IntToStr(n)

\* "%02d" % n
TwoDigits(n) == IF n < 10 THEN <<"0">> \o IntToStr(n) ELSE IntToStr(n)

\* datetime.isoformat() of the clock's reading t: the microseconds are
\* left out when they are zero
isoformat(t) ==
    <<"2","0","2","4","-","0","5","-","0","1","T","1","0",":","3","0",":">>
        \o TwoDigits(FIRST_SECOND + ((t + 1) \div 2))
        \o (IF t % 2 = 0 THEN <<".","5","0","0","0","0","0">> ELSE <<>>)

\* the place of a character of a timestamp in the order of the code points
CodeOf(c) ==
    LET order == <<" ", "+", "-", ".", "0", "1", "2", "3", "4", "5", "6", "7",
                   "8", "9", ":", "T", "Z">>
    IN  CHOOSE i \in 1..Len(order) : order[i] = c

RECURSIVE TextLeq(_, _)
\* a <= b for two TEXT values in SQLite (BINARY collation)
TextLeq(a, b) ==
    IF a = <<>> THEN TRUE
    ELSE IF b = <<>> THEN FALSE
    ELSE IF Head(a) = Head(b) THEN TextLeq(Tail(a), Tail(b))
    ELSE CodeOf(Head(a)) < CodeOf(Head(b))

\* the cards a caller saves
Cards ==
    {[front |->
        <<"W","h","a","t"," ","i","s"," ","a","n"," ","E","C","G","?">>,
      back |->
        <<"A"," ","r","e","c","o","r","d","i","n","g"," ","o","f"," ","t","h",
          "e"," ","h","e","a","r","t",".">>]}

\* the lists of cards a caller gives save_flashcards
CardLists == {<<>>} \cup {<<c>> : c \in Cards} \cup {<<c, c>> : c \in Cards}

\* the topics a caller gives (none)
CardTopics == {NULL}

\* the limits a caller gives
Limits == (0..MaxLimit) \cup {DEFAULT_LIMIT}

\* the values a caller gives update_flashcard_review as next_review_iso:
\* no time, or a time up to one the clock does not reach
ReviewTimes == {isoformat(t) : t \in 0..(MaxTime + 1)} \cup {NULL}

\* a row of flashcards; AUTOINCREMENT gives the ids 1, 2, ... and no row
\* is ever deleted; topic or "" is the topic
NewRow(rows, c, topic, next_review, created_at) ==
    [id |-> Len(rows) + 1,
     front |-> c.front,
     back |-> c.back,
     topic |-> IF topic = NULL THEN <<>> ELSE topic,
     next_review |-> next_review,
     created_at |-> created_at]

RECURSIVE InsertAll(_, _, _, _)
\* the loop of save_flashcards: now is both next_review and created_at
InsertAll(rows, cards, topic, now_) ==
    IF cards = <<>> THEN rows
    ELSE InsertAll(Append(rows, NewRow(rows, Head(cards), topic, now_, now_)),
                   Tail(cards), topic, now_)

\* WHERE next_review IS NULL OR next_review <= ?
DueRow(r, now_) == r.next_review = NULL \/ TextLeq(r.next_review, now_)

RECURSIVE SelectDue(_, _)
\* SELECT id, front, back, topic FROM flashcards WHERE ... ORDER BY id:
\* the rows are kept in the order of their ids
SelectDue(rows, now_) ==
    IF rows = <<>> THEN <<>>
    ELSE (IF DueRow(Head(rows), now_)
          THEN <<[id |-> Head(rows).id, front |-> Head(rows).front,
                  back |-> Head(rows).back, topic |-> Head(rows).topic]>>
          ELSE <<>>) \o SelectDue(Tail(rows), now_)

\* LIMIT n for n >= 0
Limit(rows, n) == SubSeq(rows, 1, IF Len(rows) < n THEN Len(rows) ELSE n)

RECURSIVE SelectTopic(_, _)
\* SELECT ... FROM flashcards WHERE topic = ? OR topic = '' ORDER BY id
SelectTopic(rows, topic) ==
    IF rows = <<>> THEN <<>>
    ELSE (IF Head(rows).topic = topic \/ Head(rows).topic = <<>>
          THEN <<Head(rows)>> ELSE <<>>) \o SelectTopic(Tail(rows), topic)

RECURSIVE PendingOf(_)
\* the rows the calls in flight of the callers S are still to insert
PendingOf(S) ==
    IF S = {} THEN 0
    ELSE LET p == CHOOSE q \in S : TRUE
         IN  Len(flight[p].cards) + PendingOf(S \ {p})

Pending == PendingOf(Conns)

\* time passes
Tick ==
    /\ now < MaxTime
    /\ now' = now + 1
    /\ UNCHANGED <<db, deck, op, flight, rag, agents>>

\* init_db(): CREATE TABLE IF NOT EXISTS notes, flashcards; commit
init_db ==
    /\ db' = [db EXCEPT !.created = TRUE]
    /\ UNCHANGED <<now, deck, op, flight, rag, agents>>

\* a call by p starts: conn = get_conn(); init_db(conn)
Enter(p, frame) ==
    /\ flight[p] = NoCall
    /\ flight' = [flight EXCEPT ![p] = frame]
    /\ db' = [db EXCEPT !.created = TRUE]
    /\ UNCHANGED <<now, deck, op, rag, agents>>

\* save_note(question, answer, sources) up to init_db(conn)
save_note(p) ==
    Enter(p, [NoCall EXCEPT !.fn = "save_note", !.pc = "insert"])

\* save_note: INSERT INTO notes, commit, close, return row_id
save_note_insert(p) ==
    /\ flight[p].fn = "save_note"
    /\ flight' = [flight EXCEPT ![p] = NoCall]
    /\ UNCHANGED <<db, now, deck, op, rag, agents>>

\* get_all_notes() up to init_db(conn)
get_all_notes(p) ==
    Enter(p, [NoCall EXCEPT !.fn = "get_all_notes", !.pc = "select"])

\* get_all_notes: SELECT ... FROM notes, close, return
get_all_notes_select(p) ==
    /\ flight[p].fn = "get_all_notes"
    /\ flight' = [flight EXCEPT ![p] = NoCall]
    /\ UNCHANGED <<db, now, deck, op, rag, agents>>

\* save_flashcard(front, back, topic) up to init_db(conn)
save_flashcard(p, c, topic) ==
    /\ Len(db.flashcards) + Pending < MaxCards
    /\ Enter(p, [NoCall EXCEPT !.fn = "save_flashcard", !.pc = "utcnow",
                               !.cards = <<c>>, !.topic = topic])

\* save_flashcard: the first datetime.utcnow().isoformat(), for next_review
save_flashcard_utcnow(p) ==
    /\ flight[p].fn = "save_flashcard"
    /\ flight[p].pc = "utcnow"
    /\ flight' = [flight EXCEPT ![p].now = isoformat(now),
                                ![p].pc = "utcnow_created_at"]
    /\ UNCHANGED <<db, now, deck, op, rag, agents>>

\* save_flashcard: the second datetime.utcnow().isoformat(), for created_at
save_flashcard_utcnow_created_at(p) ==
    /\ flight[p].fn = "save_flashcard"
    /\ flight[p].pc = "utcnow_created_at"
    /\ flight' = [flight EXCEPT ![p].created_at = isoformat(now),
                                ![p].pc = "insert"]
    /\ UNCHANGED <<db, now, deck, op, rag, agents>>

\* save_flashcard: INSERT INTO flashcards, commit, close, return row_id
save_flashcard_insert(p) ==
    /\ flight[p].fn = "save_flashcard"
    /\ flight[p].pc = "insert"
    /\ db' = [db EXCEPT !.flashcards =
                 Append(@, NewRow(@, flight[p].cards[1], flight[p].topic,
                                  flight[p].now, flight[p].created_at))]
    /\ flight' = [flight EXCEPT ![p] = NoCall]
    /\ op' = [fn |-> "save_flashcard", raised |-> FALSE]
    /\ deck' = <<>>
    /\ UNCHANGED <<now, rag, agents>>

\* save_flashcards(cards, topic) up to init_db(conn)
save_flashcards(p, cards, topic) ==
    /\ Len(db.flashcards) + Pending + Len(cards) <= MaxCards
    /\ Enter(p, [NoCall EXCEPT !.fn = "save_flashcards", !.pc = "utcnow",
                               !.cards = cards, !.topic = topic])

\* save_flashcards: now = datetime.utcnow().isoformat()
save_flashcards_utcnow(p) ==
    /\ flight[p].fn = "save_flashcards"
    /\ flight[p].pc = "utcnow"
    /\ flight' = [flight EXCEPT ![p].now = isoformat(now), ![p].pc = "insert"]
    /\ UNCHANGED <<db, now, deck, op, rag, agents>>

\* save_flashcards: the INSERTs, commit, close, return count
save_flashcards_insert(p) ==
    /\ flight[p].fn = "save_flashcards"
    /\ flight[p].pc = "insert"
    /\ db' = [db EXCEPT !.flashcards =
                 InsertAll(@, flight[p].cards, flight[p].topic, flight[p].now)]
    /\ flight' = [flight EXCEPT ![p] = NoCall]
    /\ op' = [fn |-> "save_flashcards", raised |-> FALSE]
    /\ deck' = <<>>
    /\ UNCHANGED <<now, rag, agents>>

\* get_all_flashcards(topic) up to init_db(conn)
get_all_flashcards(p, topic) ==
    Enter(p, [NoCall EXCEPT !.fn = "get_all_flashcards", !.pc = "select",
                            !.topic = topic])

\* get_all_flashcards: the SELECT with or without the topic, close, return
get_all_flashcards_select(p) ==
    /\ flight[p].fn = "get_all_flashcards"
    /\ deck' = IF flight[p].topic \in {NULL, <<>>}
               THEN db.flashcards
               ELSE SelectTopic(db.flashcards, flight[p].topic)
    /\ flight' = [flight EXCEPT ![p] = NoCall]
    /\ op' = [fn |-> "get_all_flashcards", raised |-> FALSE]
    /\ UNCHANGED <<db, now, rag, agents>>

\* get_flashcards_for_review(limit) up to init_db(conn)
get_flashcards_for_review(p, limit) ==
    Enter(p, [NoCall EXCEPT !.fn = "get_flashcards_for_review",
                            !.pc = "utcnow", !.limit = limit])

\* get_flashcards_for_review: now = datetime.utcnow().isoformat()
get_flashcards_for_review_utcnow(p) ==
    /\ flight[p].fn = "get_flashcards_for_review"
    /\ flight[p].pc = "utcnow"
    /\ flight' = [flight EXCEPT ![p].now = isoformat(now), ![p].pc = "select"]
    /\ UNCHANGED <<db, now, deck, op, rag, agents>>

\* get_flashcards_for_review: the SELECT, close, return
get_flashcards_for_review_select(p) ==
    /\ flight[p].fn = "get_flashcards_for_review"
    /\ flight[p].pc = "select"
    /\ deck' = Limit(SelectDue(db.flashcards, flight[p].now), flight[p].limit)
    /\ flight' = [flight EXCEPT ![p] = NoCall]
    /\ op' = [fn |-> "get_flashcards_for_review", raised |-> FALSE]
    /\ UNCHANGED <<db, now, rag, agents>>

\* update_flashcard_review(card_id, next_review_iso): it does not call
\* init_db, so the statement raises when the table has not been created
update_flashcard_review(card_id, next_review_iso) ==
    /\ IF db.created
       THEN /\ db' = [db EXCEPT !.flashcards =
                         [j \in 1..Len(@) |->
                             IF @[j].id = card_id
                             THEN [@[j] EXCEPT !.next_review = next_review_iso]
                             ELSE @[j]]]
            /\ op' = [fn |-> "update_flashcard_review", raised |-> FALSE]
       ELSE /\ db' = db
            /\ op' = [fn |-> "update_flashcard_review", raised |-> TRUE]
    /\ deck' = <<>>
    /\ UNCHANGED <<now, flight, rag, agents>>

InitStore ==
    /\ RagIdle
    /\ AgentsIdle
    /\ LearningIdle

NextStore ==
    \/ Tick
    \/ init_db
    \/ \E p \in Conns : save_note(p)
    \/ \E p \in Conns : save_note_insert(p)
    \/ \E p \in Conns : get_all_notes(p)
    \/ \E p \in Conns : get_all_notes_select(p)
    \/ \E p \in Conns, c \in Cards, topic \in CardTopics :
          save_flashcard(p, c, topic)
    \/ \E p \in Conns : save_flashcard_utcnow(p)
    \/ \E p \in Conns : save_flashcard_utcnow_created_at(p)
    \/ \E p \in Conns : save_flashcard_insert(p)
    \/ \E p \in Conns, cards \in CardLists, topic \in CardTopics :
          save_flashcards(p, cards, topic)
    \/ \E p \in Conns : save_flashcards_utcnow(p)
    \/ \E p \in Conns : save_flashcards_insert(p)
    \/ \E p \in Conns, topic \in CardTopics : get_all_flashcards(p, topic)
    \/ \E p \in Conns : get_all_flashcards_select(p)
    \/ \E p \in Conns, limit \in Limits : get_flashcards_for_review(p, limit)
    \/ \E p \in Conns : get_flashcards_for_review_utcnow(p)
    \/ \E p \in Conns : get_flashcards_for_review_select(p)
    \/ \E card_id \in 1..(MaxCards + 1), next_review_iso \in ReviewTimes :
          update_flashcard_review(card_id, next_review_iso)

SpecStore == InitStore /\ [][NextStore]_vars

(***************************************************************************)
(* C16.  get_flashcards_for_review(limit) returns the first                *)
(* min(limit, number due) due cards in the order of their ids, a card      *)
(* being due exactly when its next_review is null or a time not later than *)
(* the current time, which is the time the call read: a card just saved is *)
(* due, and a card whose next_review was set to a later time is not        *)
(* returned before that time.                                              *)
(***************************************************************************)
\* the time a timestamp of the table stands for
TimeOf(text) == CHOOSE t \in 0..(MaxTime + 1) : isoformat(t) = text

\* the card is due at time t
DueAt(r, t) == r.next_review = NULL \/ TimeOf(r.next_review) <= t

\* the ids of the cards of the table rows that are due at time t
DueIds(rows, t) == {rows[j].id : j \in {k \in 1..Len(rows) : DueAt(rows[k], t)}}

\* the row of the table with the given id
RowOf(rows, id) == rows[CHOOSE j \in 1..Len(rows) : rows[j].id = id]

\* d is the first min(limit, number due) due cards of rows at time t, in
\* ascending order of id
FirstDue(d, rows, t, limit) ==
    LET due == DueIds(rows, t)
        n == IF limit < Cardinality(due) THEN limit ELSE Cardinality(due)
    IN  /\ Len(d) = n
        /\ \A j \in 1..n :
              /\ d[j].id \in due
              /\ d[j].front = RowOf(rows, d[j].id).front
              /\ d[j].back = RowOf(rows, d[j].id).back
              /\ d[j].topic = RowOf(rows, d[j].id).topic
              /\ \A i \in due : i < d[j].id => \E k \in 1..(j - 1) : d[k].id = i
        /\ \A j \in 1..(n - 1) : d[j].id < d[j + 1].id

\* the step is the return of the call of get_flashcards_for_review by p
ReviewReturned(p) ==
    /\ flight[p].fn = "get_flashcards_for_review"
    /\ flight[p].pc = "select"
    /\ flight'[p] = NoCall

\* the step is the end of a call of save_flashcard or save_flashcards
Saved == Len(db'.flashcards) > Len(db.flashcards)

C16_DueCardsInIdOrder ==
    /\ [](\A j \in 1..Len(db.flashcards), t \in 0..MaxTime :
             DueRow(db.flashcards[j], isoformat(t))
                 <=> DueAt(db.flashcards[j], t))
    /\ [][\A p \in Conns :
             ReviewReturned(p) =>
                 FirstDue(deck', db.flashcards, TimeOf(flight[p].now),
                          flight[p].limit)]_vars
    /\ [][Saved =>
             \A j \in (Len(db.flashcards) + 1)..Len(db'.flashcards) :
                 DueAt(db'.flashcards[j], now')]_vars

\* two cards, the first put off to a later time by update_flashcard_review:
\* the review returns the second card alone
C16_Witness ==
    /\ op.fn = "get_flashcards_for_review"
    /\ Len(db.flashcards) = 2
    /\ db.flashcards[1].next_review # NULL
    /\ TimeOf(db.flashcards[1].next_review) > now
    /\ Len(deck) = 1
    /\ deck[1].id = 2

=============================================================================
